---- MODULE Spec2Model ----
(***************************************************************************)
(* Motion-control core of the MicroPupper robot: the chunked-message       *)
(* assembler and the command interpreter of ble_servo.c, the leg           *)
(* kinematics of dog_config.c and the callbacks wired in app_main.         *)
(*                                                                         *)
(* A byte string is a sequence of lexical units of JSON text, each with    *)
(* the number of bytes it takes; fragments split a text between units.     *)
(* Angles are whole degrees.                                               *)
(***************************************************************************)
EXTENDS Integers, Sequences, FiniteSets, TLC

\* ------------------------------------------------------------------------
\* Program constants
\* ------------------------------------------------------------------------
CHUNK_BUFFER_SIZE == 2048
\* uint8_t chunk_num / total, uint16_t speed / delay_ms
UINT8_MOD == 256
UINT16_MOD == 65536

DOG_SERVO_FR == 1
DOG_SERVO_FL == 2
DOG_SERVO_BR == 3
DOG_SERVO_BL == 4
DOG_SERVO_COUNT == 4
DOG_STANCE_FRONT == 90
DOG_STANCE_BACK == 270
DOG_DEFAULT_SPEED == 1000
FULL_TURN == 360
\* reaction_config.h; a float constant is a fraction <<numerator, denominator>>
REACTION_DELTA_THRESHOLD == 50
REACTION_MIN_ACCEL == 3
REACTION_COOLDOWN_MS == 2000
REACTION_GYRO_STABILIZE_ENABLED_DEFAULT == TRUE
REACTION_GYRO_MAX_CORRECTION == 90
REACTION_GYRO_DEADZONE == <<1, 2>>
REACTION_GYRO_GAIN == <<16, 10>>
REACTION_GYRO_SMOOTHING == <<3, 10>>
REACTION_GYRO_UPDATE_INTERVAL_MS == 50
REACTION_GYRO_SPEED_MIN == 150
REACTION_GYRO_SPEED_MAX == 2000
REACTION_GYRO_SPEED_THRESHOLD == 10
\* the decay and the gain of the integrator, 0.98f and 0.02f
GYRO_DECAY == <<98, 100>>
GYRO_INTEGRATE == <<2, 100>>
\* FreeRTOS: one tick of xTaskGetTickCount in milliseconds (100 Hz)
portTICK_PERIOD_MS == 10

\* ------------------------------------------------------------------------
\* Bounds of the model
\* ------------------------------------------------------------------------
\* largest in-range chunk index / total the peer sends
MaxIdx == 3
\* leg angles are the multiples of 30 degrees up to MaxTurn of them
MaxTurn == 12
\* the tick counter runs up to MaxTicks
MaxTicks == 12
\* the push detector's clock takes up to MaxHalves steps of half a cooldown
MaxHalves == 5

Min(S) == CHOOSE x \in S : \A y \in S : x <= y

\* ------------------------------------------------------------------------
\* cJSON items.  JNull is the C NULL pointer (no item).
\* ------------------------------------------------------------------------
JNull == [ty |-> "NULL", n |-> 0, s |-> <<>>, keys |-> <<>>, items |-> <<>>]
JNum(v) == [ty |-> "num", n |-> v, s |-> <<>>, keys |-> <<>>, items |-> <<>>]
JStr(b) == [ty |-> "str", n |-> 0, s |-> b, keys |-> <<>>, items |-> <<>>]
JArr(it) == [ty |-> "arr", n |-> 0, s |-> <<>>, keys |-> <<>>, items |-> it]
JObj(ks, it) == [ty |-> "obj", n |-> 0, s |-> <<>>, keys |-> ks, items |-> it]

cJSON_IsNumber(item) == item.ty = "num"
cJSON_IsString(item) == item.ty = "str"
cJSON_IsArray(item) == item.ty = "arr"
cJSON_GetArraySize(item) == Len(item.items)
cJSON_GetArrayItem(item, i) == item.items[i + 1]
\* first member with that name, NULL when there is none
cJSON_GetObjectItem(obj, name) ==
    LET hits == {i \in 1..Len(obj.keys) : obj.keys[i] = name}
    IN IF hits = {} THEN JNull ELSE obj.items[Min(hits)]

\* ------------------------------------------------------------------------
\* Lexical units of a JSON text and the parser over them
\* ------------------------------------------------------------------------
WS == " "
\* a run of whitespace half as long as what the buffer takes
PAD == "pad"
PadBytes == (CHUNK_BUFFER_SIZE - 2) \div 2
Blank(u) == u \in {WS, PAD}
NumberValue ==
    ("0" :> 0) @@ ("1" :> 1) @@ ("2" :> 2) @@ ("20" :> 20) @@ ("60" :> 60)
    @@ ("90" :> 90) @@ ("120" :> 120) @@ ("270" :> 270) @@ ("500" :> 500)
    @@ ("1000" :> 1000) @@ ("5000" :> 5000) @@ ("70000" :> 70000)
    @@ ("-1" :> (0 - 1))
NumberUnits == DOMAIN NumberValue
StringUnits == {"s", "m", "p", "r", "k", "t", "d", "x"}

\* bytes of one unit: a quoted one-letter string, the digits of a number, one
\* character of punctuation
UnitBytes(u) ==
    IF u = PAD THEN PadBytes
    ELSE IF u \in StringUnits THEN 3
    ELSE IF u \in {"0", "1", "2"} THEN 1
    ELSE IF u \in {"20", "60", "90", "-1"} THEN 2
    ELSE IF u \in {"120", "270", "500"} THEN 3
    ELSE IF u \in {"1000", "5000"} THEN 4
    ELSE IF u = "70000" THEN 5
    ELSE 1

RECURSIVE strlen(_)
strlen(t) == IF t = <<>> THEN 0 ELSE UnitBytes(Head(t)) + strlen(Tail(t))

PFail == [v |-> JNull, i |-> 0, ok |-> FALSE]
POk(v, i) == [v |-> v, i |-> i, ok |-> TRUE]

\* index of the first unit at or after i that is not whitespace
SkipWs(t, i) ==
    LET rest == {j \in i..Len(t) : ~Blank(t[j])}
    IN IF rest = {} THEN Len(t) + 1 ELSE Min(rest)

RECURSIVE ParseValue(_, _), ParseItems(_, _, _), ParseMembers(_, _, _, _)

\* parse_value at position i (leading whitespace already skipped)
ParseValue(t, i) ==
    IF i > Len(t) THEN PFail
    ELSE IF t[i] \in NumberUnits THEN POk(JNum(NumberValue[t[i]]), i + 1)
    ELSE IF t[i] \in StringUnits THEN POk(JStr(<<t[i]>>), i + 1)
    ELSE IF t[i] = "[" THEN
        LET j == SkipWs(t, i + 1)
        IN IF j <= Len(t) /\ t[j] = "]" THEN POk(JArr(<<>>), j + 1)
           ELSE ParseItems(t, j, <<>>)
    ELSE IF t[i] = "{" THEN
        LET j == SkipWs(t, i + 1)
        IN IF j <= Len(t) /\ t[j] = "}" THEN POk(JObj(<<>>, <<>>), j + 1)
           ELSE ParseMembers(t, j, <<>>, <<>>)
    ELSE PFail

\* parse_array: value (, value)* ]
ParseItems(t, i, acc) ==
    LET r == ParseValue(t, SkipWs(t, i))
    IN IF ~r.ok THEN PFail
       ELSE LET j == SkipWs(t, r.i)
            IN IF j > Len(t) THEN PFail
               ELSE IF t[j] = "," THEN ParseItems(t, j + 1, Append(acc, r.v))
               ELSE IF t[j] = "]" THEN POk(JArr(Append(acc, r.v)), j + 1)
               ELSE PFail

\* parse_object: string : value (, string : value)* }
ParseMembers(t, i, ks, acc) ==
    LET k == SkipWs(t, i)
    IN IF k > Len(t) \/ t[k] \notin StringUnits THEN PFail
       ELSE LET c == SkipWs(t, k + 1)
            IN IF c > Len(t) \/ t[c] # ":" THEN PFail
               ELSE LET r == ParseValue(t, SkipWs(t, c + 1))
                    IN IF ~r.ok THEN PFail
                       ELSE LET j == SkipWs(t, r.i)
                            IN IF j > Len(t) THEN PFail
                               ELSE IF t[j] = "," THEN
                                   ParseMembers(t, j + 1, Append(ks, t[k]), Append(acc, r.v))
                               ELSE IF t[j] = "}" THEN
                                   POk(JObj(Append(ks, t[k]), Append(acc, r.v)), j + 1)
                               ELSE PFail

\* cJSON_ParseWithLength on a plain text: the first value of the text, text
\* after it ignored; NULL when the text does not start with a value
ParseText(t) ==
    LET r == ParseValue(t, SkipWs(t, 1))
    IN IF r.ok THEN r.v ELSE JNull

\* ------------------------------------------------------------------------
\* What a handler does to its collaborators, in order: responses notified to
\* the peer, sts_servo_set_angle calls, vTaskDelay pauses, and the texts
\* handed to process_command
\* ------------------------------------------------------------------------
Ev(op, msg, n, id, angle, speed, text) ==
    [n |-> n, op |-> op, msg |-> msg, id |-> id, angle |-> angle,
     speed |-> speed, text |-> text]
Resp(msg, n) == Ev("resp", msg, n, 0, 0, 0, <<>>)
Servo(id, angle, speed) == Ev("servo", "", 0, id, angle, speed, <<>>)
Delay(ms) == Ev("delay", "", ms, 0, 0, 0, <<>>)
Cmd(text) == Ev("cmd", "", 0, 0, 0, 0, text)

Emit(m, e) == [m EXCEPT !.tr = Append(@, e)]

\* ble_servo_send_response: notifies only while a peer is connected
ble_servo_send_response(m, msg, n) ==
    IF ~m.conn THEN m ELSE Emit(m, Resp(msg, n))

vTaskDelay(m, ms) == Emit(m, Delay(ms))

\* ------------------------------------------------------------------------
\* dog_config.c: leg kinematics
\* ------------------------------------------------------------------------
DOG_IS_RIGHT_SIDE(id) == id \in {DOG_SERVO_FR, DOG_SERVO_BR}
DOG_IS_FRONT_LEG(id) == id \in {DOG_SERVO_FR, DOG_SERVO_FL}
DOG_REVERSE_ANGLE(angle) == FULL_TURN - angle

get_base_stance(id) ==
    IF DOG_IS_FRONT_LEG(id) THEN DOG_STANCE_FRONT ELSE DOG_STANCE_BACK

sts_servo_set_angle(m, id, angle, speed) == Emit(m, Servo(id, angle, speed))

\* no reversal at all
apply_reversal_none(id, angle) == angle

apply_reversal(id, angle) ==
    IF DOG_IS_RIGHT_SIDE(id) THEN DOG_REVERSE_ANGLE(angle) ELSE angle

dog_servo_move(m, id, angle, speed) ==
    sts_servo_set_angle(m, id, apply_reversal(id, angle), speed)

\* the reversal applied to the back legs instead of the right-side legs
dog_servo_move_all_back(m, fr, fl, br, bl, speed) ==
    LET actual_br == DOG_REVERSE_ANGLE(br)
        actual_bl == DOG_REVERSE_ANGLE(bl)
        m1 == sts_servo_set_angle(m, DOG_SERVO_FR, fr, speed)
        m2 == sts_servo_set_angle(m1, DOG_SERVO_FL, fl, speed)
        m3 == sts_servo_set_angle(m2, DOG_SERVO_BR, actual_br, speed)
    IN sts_servo_set_angle(m3, DOG_SERVO_BL, actual_bl, speed)

dog_servo_move_all(m, fr, fl, br, bl, speed) ==
    LET actual_fr == apply_reversal(DOG_SERVO_FR, fr)
        actual_br == apply_reversal(DOG_SERVO_BR, br)
        m1 == sts_servo_set_angle(m, DOG_SERVO_FR, actual_fr, speed)
        m2 == sts_servo_set_angle(m1, DOG_SERVO_FL, fl, speed)
        m3 == sts_servo_set_angle(m2, DOG_SERVO_BR, actual_br, speed)
    IN sts_servo_set_angle(m3, DOG_SERVO_BL, bl, speed)

dog_goto_stance(m) ==
    dog_servo_move_all(m, DOG_STANCE_FRONT, DOG_STANCE_FRONT,
                       DOG_STANCE_BACK, DOG_STANCE_BACK, DOG_DEFAULT_SPEED)

\* ------------------------------------------------------------------------
\* dog_config.c: hardware bring-up
\* ------------------------------------------------------------------------
Ping(id) == Ev("ping", "", 0, id, 0, 0, <<>>)
Torque(id, enable) == Ev("torque", "", IF enable THEN 1 ELSE 0, id, 0, 0, <<>>)
Return(value) == Ev("return", "", IF value THEN 1 ELSE 0, 0, 0, 0, <<>>)

sts_servo_ping(m, id) == Emit(m, Ping(id))
sts_servo_enable_torque(m, id, enable) == Emit(m, Torque(id, enable))

\* the loop of dog_check_servos from leg id on: the state, and all_ok
RECURSIVE check_servos_from(_, _, _, _)
check_servos_from(m, responds, id, all_ok) ==
    IF id > DOG_SERVO_COUNT THEN <<m, all_ok>>
    ELSE check_servos_from(sts_servo_ping(m, id), responds, id + 1,
                           all_ok /\ id \in responds)

\* responds: the legs whose servo answers a ping
dog_check_servos(m, responds) == check_servos_from(m, responds, 1, TRUE)

RECURSIVE set_torque_from(_, _, _)
set_torque_from(m, enable, id) ==
    IF id > DOG_SERVO_COUNT THEN m
    ELSE set_torque_from(sts_servo_enable_torque(m, id, enable), enable, id + 1)

dog_set_torque(m, enable) == set_torque_from(m, enable, 1)

\* bring-up given up when a servo does not answer
dog_init_fatal(m, bus_ok, responds) ==
    IF ~bus_ok THEN Emit(m, Return(FALSE))
    ELSE LET m1 == vTaskDelay(m, 100)
             checked == dog_check_servos(m1, responds)
             all_ok == checked[2]
         IN IF ~all_ok THEN Emit(checked[1], Return(FALSE))
            ELSE LET m2 == vTaskDelay(dog_set_torque(checked[1], TRUE), 100)
                     m3 == vTaskDelay(dog_goto_stance(m2), 500)
                 IN Emit(m3, Return(all_ok))

\* bus_ok: sts_protocol_init returned ESP_OK
dog_init(m, bus_ok, responds) ==
    IF ~bus_ok THEN Emit(m, Return(FALSE))
    ELSE LET m1 == vTaskDelay(m, 100)
             checked == dog_check_servos(m1, responds)
             all_ok == checked[2]
             m2 == vTaskDelay(dog_set_torque(checked[1], TRUE), 100)
             m3 == vTaskDelay(dog_goto_stance(m2), 500)
         IN Emit(m3, Return(all_ok))

\* ------------------------------------------------------------------------
\* Gait engine (crawl_gait): start / stop / set-direction / is-running
\* ------------------------------------------------------------------------
GaitDirections == {"forward", "backward", "turn_left", "turn_right", "stop"}
GAIT_PHASES == 4

crawl_gait_is_running(m) == m.running

crawl_gait_start(m, direction) ==
    [m EXCEPT !.running = TRUE, !.dir = direction, !.phase = 0]

crawl_gait_set_direction(m, direction) ==
    IF m.running THEN [m EXCEPT !.dir = direction]
    ELSE crawl_gait_start(m, direction)

crawl_gait_stop(m) ==
    dog_goto_stance([m EXCEPT !.running = FALSE])

\* ------------------------------------------------------------------------
\* main.c: the callbacks app_main hands to ble_servo_init
\* ------------------------------------------------------------------------
on_servo_move(m, fr, fl, br, bl, speed, delay_ms) ==
    LET m1 == dog_servo_move_all(m, fr, fl, br, bl, speed)
    IN IF delay_ms > 0 THEN vTaskDelay(m1, delay_ms) ELSE m1

\* on_stance without the stop of a running gait
on_stance_no_stop(m) == dog_goto_stance(m)

on_stance(m) ==
    LET m1 == IF crawl_gait_is_running(m) THEN crawl_gait_stop(m) ELSE m
    IN dog_goto_stance(m1)

on_connect(m, connected) ==
    IF connected
    THEN LET m1 == IF crawl_gait_is_running(m) THEN crawl_gait_stop(m) ELSE m
         IN dog_goto_stance(m1)
    ELSE m

\* ------------------------------------------------------------------------
\* ble_servo.c: command processing
\* ------------------------------------------------------------------------
\* item->valuedouble and item->valueint (0 for an item that is no number)
valuedouble(item) == item.n
valueint(item) == item.n

process_move_array(m, arr) ==
    IF ~cJSON_IsArray(arr) \/ cJSON_GetArraySize(arr) < 5 THEN m
    ELSE LET fr == valuedouble(cJSON_GetArrayItem(arr, 0))
             fl == valuedouble(cJSON_GetArrayItem(arr, 1))
             br == valuedouble(cJSON_GetArrayItem(arr, 2))
             bl == valuedouble(cJSON_GetArrayItem(arr, 3))
             speed == valueint(cJSON_GetArrayItem(arr, 4)) % UINT16_MOD
             delay_ms == IF cJSON_GetArraySize(arr) > 5
                         THEN valueint(cJSON_GetArrayItem(arr, 5)) % UINT16_MOD
                         ELSE 0
             m1 == on_servo_move(m, fr, fl, br, bl, speed, delay_ms)
         IN IF delay_ms > 0 THEN vTaskDelay(m1, delay_ms) ELSE m1

RECURSIVE process_sequence_short(_, _, _)
\* the loop stopping one element early
process_sequence_short(m, arr, i) ==
    IF i >= cJSON_GetArraySize(arr) - 1 THEN m
    ELSE LET move == cJSON_GetArrayItem(arr, i)
             m1 == IF cJSON_IsArray(move) THEN process_move_array(m, move) ELSE m
         IN process_sequence_short(m1, arr, i + 1)

RECURSIVE process_sequence(_, _, _)
\* the loop over the elements of "m", from element i on
process_sequence(m, arr, i) ==
    IF i >= cJSON_GetArraySize(arr) THEN m
    ELSE LET move == cJSON_GetArrayItem(arr, i)
             m1 == IF cJSON_IsArray(move) THEN process_move_array(m, move) ELSE m
         IN process_sequence(m1, arr, i + 1)

\* the ping answering as the stance command does
command_ping_as_stance(m) == ble_servo_send_response(on_stance(m), "ok", 1)

\* the ping: {"p":1}
command_ping(m) == ble_servo_send_response(m, "p", 1)

\* the shapes tested in the order p, r, s, m
dispatch_command_ping_first(m, json) ==
    LET s == cJSON_GetObjectItem(json, "s")
        seq == cJSON_GetObjectItem(json, "m")
        p == cJSON_GetObjectItem(json, "p")
        r == cJSON_GetObjectItem(json, "r")
    IN IF p # JNull THEN command_ping(m)
       ELSE IF r # JNull THEN ble_servo_send_response(on_stance(m), "ok", 1)
       ELSE IF s # JNull /\ cJSON_IsArray(s) THEN process_move_array(m, s)
       ELSE IF seq # JNull /\ cJSON_IsArray(seq) THEN
           ble_servo_send_response(process_sequence(m, seq, 0), "ok", 1)
       ELSE m

\* a command of no shape answered with an error
dispatch_command_unknown_err(m, json) ==
    LET s == cJSON_GetObjectItem(json, "s")
        seq == cJSON_GetObjectItem(json, "m")
        p == cJSON_GetObjectItem(json, "p")
        r == cJSON_GetObjectItem(json, "r")
    IN IF s # JNull /\ cJSON_IsArray(s) THEN process_move_array(m, s)
       ELSE IF seq # JNull /\ cJSON_IsArray(seq) THEN
           ble_servo_send_response(process_sequence(m, seq, 0), "ok", 1)
       ELSE IF p # JNull THEN command_ping(m)
       ELSE IF r # JNull THEN ble_servo_send_response(on_stance(m), "ok", 1)
       ELSE ble_servo_send_response(m, "err_unknown", 0)

\* the shapes of process_command, on a parsed command
dispatch_command(m, json) ==
    LET s == cJSON_GetObjectItem(json, "s")
        seq == cJSON_GetObjectItem(json, "m")
        p == cJSON_GetObjectItem(json, "p")
        r == cJSON_GetObjectItem(json, "r")
    IN IF s # JNull /\ cJSON_IsArray(s) THEN process_move_array(m, s)
       ELSE IF seq # JNull /\ cJSON_IsArray(seq) THEN
           ble_servo_send_response(process_sequence(m, seq, 0), "ok", 1)
       ELSE IF p # JNull THEN command_ping(m)
       ELSE IF r # JNull THEN ble_servo_send_response(on_stance(m), "ok", 1)
       ELSE m

process_command(m, cmd) ==
    LET m0 == Emit(m, Cmd(cmd))
        json == ParseText(cmd)
    IN IF json = JNull THEN m0 ELSE dispatch_command(m0, json)

\* ------------------------------------------------------------------------
\* ble_servo.c: chunked message handling
\* ------------------------------------------------------------------------
chunk_reset(m) ==
    [m EXCEPT !.len = 0, !.exp = 0, !.rcv = 0, !.buf = <<>>]

\* An inbound buffer is either the envelope {"k":k,"t":t,"d":"d"} (kind
\* "chunk") or a plain text (kind "raw"); this is its parse.
ParseInbound(data) ==
    IF data.kind = "chunk"
    THEN JObj(<<"k", "t", "d">>, <<JNum(data.k), JNum(data.t), JStr(data.d)>>)
    ELSE ParseText(data.text)

\* the chunk test without the test of the data field
is_chunk_no_data(k, t, d) ==
    k # JNull /\ t # JNull /\ cJSON_IsNumber(k) /\ cJSON_IsNumber(t)

is_chunk(k, t, d) ==
    /\ k # JNull /\ t # JNull /\ d # JNull
    /\ cJSON_IsNumber(k) /\ cJSON_IsNumber(t) /\ cJSON_IsString(d)

\* the room test forgetting what is already accumulated
chunk_has_room_payload_only(len, payload_len) ==
    payload_len < CHUNK_BUFFER_SIZE - 1

\* does a payload of payload_len bytes go into the buffer after len bytes
chunk_has_room(len, payload_len) == len + payload_len < CHUNK_BUFFER_SIZE - 1

\* the index-1 reset
chunk_first(m, chunk_num, total) ==
    IF chunk_num = 1 THEN [chunk_reset(m) EXCEPT !.exp = total] ELSE m

\* the validation letting indices up to the next one pass
chunk_in_sequence_upto(m, chunk_num, total) ==
    ~(chunk_num > m.rcv + 1 \/ total # m.exp)

\* "Validate sequence"
chunk_in_sequence(m, chunk_num, total) ==
    ~(chunk_num # m.rcv + 1 \/ total # m.exp)

\* the append branch: copy, ack, and the completion test
chunk_append(m, chunk_num, payload) ==
    LET m1 == [m EXCEPT !.buf = @ \o payload, !.len = @ + strlen(payload),
                        !.rcv = chunk_num]
        m2 == ble_servo_send_response(m1, "ack", chunk_num)
    IN IF m2.rcv = m2.exp
       THEN chunk_reset(process_command(m2, m2.buf))
       ELSE m2

\* the refusal keeping what was accumulated
chunk_overflow_no_reset(m) == ble_servo_send_response(m, "err_overflow", 0)

\* the refusal of a payload that does not fit
chunk_overflow(m) ==
    ble_servo_send_response(chunk_reset(m), "err_overflow", 0)

handle_chunk(m, k, t, d) ==
    LET chunk_num == valueint(k) % UINT8_MOD
        total == valueint(t) % UINT8_MOD
        payload == d.s
        m1 == chunk_first(m, chunk_num, total)
    IN IF ~chunk_in_sequence(m1, chunk_num, total)
       THEN ble_servo_send_response(chunk_reset(m1), "err_chunk_seq", 0)
       ELSE IF chunk_has_room(m1.len, strlen(payload))
       THEN chunk_append(m1, chunk_num, payload)
       ELSE chunk_overflow(m1)

\* a buffer that is no fragment discarding the message in progress
handle_incoming_data_discarding(m, data) ==
    LET json == ParseInbound(data)
    IN IF json = JNull THEN chunk_reset(m)
       ELSE LET k == cJSON_GetObjectItem(json, "k")
                t == cJSON_GetObjectItem(json, "t")
                d == cJSON_GetObjectItem(json, "d")
            IN IF is_chunk(k, t, d) THEN handle_chunk(m, k, t, d)
               ELSE process_command(chunk_reset(m), data.text)

handle_incoming_data(m, data) ==
    LET json == ParseInbound(data)
    IN IF json = JNull THEN m
       ELSE LET k == cJSON_GetObjectItem(json, "k")
                t == cJSON_GetObjectItem(json, "t")
                d == cJSON_GetObjectItem(json, "d")
            IN IF is_chunk(k, t, d) THEN handle_chunk(m, k, t, d)
               ELSE process_command(m, data.text)

\* ------------------------------------------------------------------------
\* Gait phase progression: one leg at its forward extreme per phase
\* ------------------------------------------------------------------------
DOG_SWING_AMPLITUDE == 30

dog_get_stance_angle(id) == apply_reversal(id, get_base_stance(id))
\* the offset subtracted: the backward extreme
dog_get_swing_forward_angle_back(id) ==
    apply_reversal(id, get_base_stance(id) - DOG_SWING_AMPLITUDE)
dog_get_swing_forward_angle(id) ==
    apply_reversal(id, get_base_stance(id) + DOG_SWING_AMPLITUDE)
dog_get_push_back_angle(id) ==
    apply_reversal(id, get_base_stance(id) - DOG_SWING_AMPLITUDE)

\* the leg lifted in each phase, by direction
GaitLegOrder(direction) ==
    CASE direction = "forward" ->
            <<DOG_SERVO_BL, DOG_SERVO_FR, DOG_SERVO_BR, DOG_SERVO_FL>>
      [] direction = "turn_right" ->
            <<DOG_SERVO_BL, DOG_SERVO_BR, DOG_SERVO_FL, DOG_SERVO_FR>>
      [] direction = "turn_left" ->
            <<DOG_SERVO_BR, DOG_SERVO_BL, DOG_SERVO_FR, DOG_SERVO_FL>>
      [] OTHER -> <<0, 0, 0, 0>>

RECURSIVE gait_set_legs(_, _, _)
gait_set_legs(m, lifted, id) ==
    IF id > DOG_SERVO_COUNT THEN m
    ELSE LET angle == IF id = lifted THEN dog_get_swing_forward_angle(id)
                      ELSE dog_get_stance_angle(id)
         IN gait_set_legs(sts_servo_set_angle(m, id, angle, DOG_DEFAULT_SPEED),
                          lifted, id + 1)

crawl_gait_phase(m) ==
    LET lifted == GaitLegOrder(m.dir)[m.phase + 1]
    IN [gait_set_legs(m, lifted, 1) EXCEPT !.phase = (@ + 1) % GAIT_PHASES]

\* ------------------------------------------------------------------------
\* Reaction: gyro stabilization and push detection (reaction_config.c)
\* Angles are whole degrees and rates whole degrees per second: every
\* assignment of a float expression is rounded toward zero to a whole number.
\* ------------------------------------------------------------------------
Abs(x) == IF x < 0 THEN -x ELSE x
Quot(a, b) == IF a >= 0 THEN a \div b ELSE -((-a) \div b)

pdTICKS_TO_MS(ticks) == ticks * portTICK_PERIOD_MS

\* powf(speed_ratio, REACTION_GYRO_SPEED_CURVE) for the ratios 1/10 .. 10/10,
\* in ten-thousandths
POWF_SCALE == 10000
PowCurve == <<630, 1449, 2358, 3330, 4352, 5417, 6518, 7650, 8812, 10000>>
powf(tenths) == IF tenths = 0 THEN 0 ELSE PowCurve[tenths]

\* the speed is the maximum whatever the change
dynamic_speed_max(angle_delta) == REACTION_GYRO_SPEED_MAX

\* lines 128-138: speed_ratio = angle_delta / threshold, capped at 1, curved,
\* mapped into the speed range and cast to uint16_t
dynamic_speed(angle_delta) ==
    LET speed_ratio == Min({angle_delta, REACTION_GYRO_SPEED_THRESHOLD})
    IN (REACTION_GYRO_SPEED_MIN
        + Quot(powf(speed_ratio)
               * (REACTION_GYRO_SPEED_MAX - REACTION_GYRO_SPEED_MIN),
               POWF_SCALE)) % UINT16_MOD

\* the clamp without its upper branch
clamp_correction_lower(angle) ==
    IF angle < -REACTION_GYRO_MAX_CORRECTION
    THEN -REACTION_GYRO_MAX_CORRECTION ELSE angle

\* lines 106-110
clamp_correction(angle) ==
    IF angle > REACTION_GYRO_MAX_CORRECTION THEN REACTION_GYRO_MAX_CORRECTION
    ELSE IF angle < -REACTION_GYRO_MAX_CORRECTION
    THEN -REACTION_GYRO_MAX_CORRECTION ELSE angle

\* the rate limit with an interval of 0
stabilize_due_always(m) ==
    /\ m.en
    /\ pdTICKS_TO_MS(m.now - m.lst) >= 0

\* lines 74-84: enabled, and the interval has elapsed since the last update
stabilize_due(m) ==
    /\ m.en
    /\ pdTICKS_TO_MS(m.now - m.lst) >= REACTION_GYRO_UPDATE_INTERVAL_MS

apply_gyro_stabilization(m, data_gyro_y) ==
    IF ~stabilize_due(m) THEN m
    ELSE
        LET gyro_y ==
                IF Abs(data_gyro_y) * REACTION_GYRO_DEADZONE[2]
                   < REACTION_GYRO_DEADZONE[1]
                THEN 0 ELSE data_gyro_y
            filtered ==
                Quot(REACTION_GYRO_SMOOTHING[1] * gyro_y
                     + (REACTION_GYRO_SMOOTHING[2] - REACTION_GYRO_SMOOTHING[1])
                       * m.filt,
                     REACTION_GYRO_SMOOTHING[2])
            correction == Quot(filtered * REACTION_GYRO_GAIN[1], REACTION_GYRO_GAIN[2])
            accumulated ==
                clamp_correction(
                    Quot(m.acc * GYRO_DECAY[1] + correction * GYRO_INTEGRATE[1],
                         GYRO_DECAY[2]))
            angle_delta == Abs(accumulated - m.prev)
        IN dog_servo_move_all(
               [m EXCEPT !.lst = m.now, !.filt = filtered, !.acc = accumulated,
                         !.prev = accumulated],
               DOG_STANCE_FRONT + accumulated, DOG_STANCE_FRONT + accumulated,
               DOG_STANCE_BACK + accumulated, DOG_STANCE_BACK + accumulated,
               dynamic_speed(angle_delta))

\* resets and returns to stance on every call, not only on a change
reaction_gyro_stabilize_enable_always(m, enable) ==
    IF enable
    THEN [m EXCEPT !.filt = 0, !.acc = 0, !.prev = 0, !.lst = m.now, !.en = TRUE]
    ELSE [dog_goto_stance(m) EXCEPT !.en = FALSE]

reaction_gyro_stabilize_enable(m, enable) ==
    LET m1 == IF enable /\ ~m.en
              THEN [m EXCEPT !.filt = 0, !.acc = 0, !.prev = 0, !.lst = m.now]
              ELSE IF ~enable /\ m.en THEN dog_goto_stance(m)
              ELSE m
    IN [m1 EXCEPT !.en = enable]

reaction_gyro_stabilize_is_enabled(m) == m.en

\* no cooldown at all
is_cooldown_expired_always(m) ==
    pdTICKS_TO_MS(m.now - m.lrt) >= 0

is_cooldown_expired(m) ==
    pdTICKS_TO_MS(m.now - m.lrt) >= REACTION_COOLDOWN_MS

\* the recording of a trigger time, as a call in the record of effects
Trigger(time) == Ev("trigger", "", time, 0, 0, 0, <<>>)
update_reaction_time(m) == Emit([m EXCEPT !.lrt = m.now], Trigger(m.now))

\* walk_forward_reaction is not in src/: the playback is one recorded call
Walk(cycles) == Ev("walk", "", cycles, 0, 0, 0, <<>>)
walk_forward_play(m, cycles) == Emit(m, Walk(cycles))

reaction_init(m) ==
    [m EXCEPT !.pax = 0, !.has = FALSE, !.filt = 0, !.acc = 0,
              !.lst = m.now, !.inited = TRUE]

\* a sample is compared with the reading before it even when there is none
has_prev_reading_always(m) == m.has \/ ~m.has

\* lines 200-205: a previous reading is needed for the delta
has_prev_reading_set(m) == m.has

\* the thresholds taken as strict
is_front_push_strict(delta, accel_x) ==
    delta > REACTION_DELTA_THRESHOLD /\ accel_x > REACTION_MIN_ACCEL

\* line 220
is_front_push(delta, accel_x) ==
    delta >= REACTION_DELTA_THRESHOLD /\ accel_x >= REACTION_MIN_ACCEL

\* no sample is a backward push
is_back_push_never(delta, accel_x) ==
    delta <= -REACTION_DELTA_THRESHOLD /\ accel_x <= -REACTION_MIN_ACCEL /\ FALSE

\* line 230
is_back_push(delta, accel_x) ==
    delta <= -REACTION_DELTA_THRESHOLD /\ accel_x <= -REACTION_MIN_ACCEL

reaction_process_imu(m, gyro_y, accel_x) ==
    IF ~m.inited THEN m
    ELSE
        LET m1 == apply_gyro_stabilization(m, gyro_y)
            delta == accel_x - m1.pax
            m2 == [m1 EXCEPT !.pax = accel_x]
        IN IF ~has_prev_reading_set(m1) THEN [m1 EXCEPT !.pax = accel_x, !.has = TRUE]
           ELSE IF ~is_cooldown_expired(m2) THEN m2
           ELSE IF is_front_push(delta, accel_x)
           THEN walk_forward_play(update_reaction_time(m2), 3)
           ELSE IF is_back_push(delta, accel_x)
           THEN update_reaction_time(m2)
           ELSE m2

\* ------------------------------------------------------------------------
\* State
\* ------------------------------------------------------------------------
VARIABLES
    s_chunk_buffer,     \* accumulated bytes
    s_chunk_len,
    s_chunk_expected,
    s_chunk_received,
    s_connected,
    gait_running,
    gait_direction,
    gait_phase,
    gyro_stabilize_enabled,
    gyro_filtered_y,
    accumulated_angle,
    prev_accumulated_angle,
    last_stabilize_time,
    last_reaction_time,
    initialized,
    prev_accel_x,
    has_prev_reading,
    tick_count,         \* xTaskGetTickCount
    tr,                 \* what the last handler did, in order
    inp,                \* the inbound buffer the last handler was given
    pre,                \* the state the last handler started from
    last,               \* the last handler
    call,               \* the arguments of the last direct call of an operation
    fired,              \* the last two fired stabilization updates: their tick
                        \* counts, then their corrections
    triggers,           \* the number of push triggers since start-up
    run,                \* in-order delivery of one message, as the peer sees it
    transport_pending,  \* what the paused transport handler has still to do
    transport_wake,     \* the tick its pause ends at, -1 when it is not paused
    control_pending,    \* what the control-loop task has still to do in the
                        \* call another task's statements came into
    assembled,          \* the payloads of the fragments accepted for the message
                        \* in progress, and whether a buffer that is no fragment
                        \* came between them
    trigger_kind        \* the direction of the last push trigger before the last
                        \* handler, and of the last one now

vars == <<s_chunk_buffer, s_chunk_len, s_chunk_expected, s_chunk_received,
          s_connected, gait_running, gait_direction, gait_phase,
          gyro_stabilize_enabled, gyro_filtered_y, accumulated_angle,
          prev_accumulated_angle, last_stabilize_time, last_reaction_time,
          initialized, prev_accel_x, has_prev_reading, tick_count,
          tr, inp, pre, last, call, fired, triggers, run,
          transport_pending, transport_wake, assembled, trigger_kind,
          control_pending>>

\* the state as the handlers see it, with an empty record of effects
Machine ==
    [acc |-> accumulated_angle,
     tr |-> <<>>, conn |-> s_connected, running |-> gait_running,
     dir |-> gait_direction, phase |-> gait_phase, len |-> s_chunk_len,
     exp |-> s_chunk_expected, rcv |-> s_chunk_received,
     buf |-> s_chunk_buffer, en |-> gyro_stabilize_enabled,
     now |-> tick_count, lst |-> last_stabilize_time,
     filt |-> gyro_filtered_y, prev |-> prev_accumulated_angle,
     lrt |-> last_reaction_time, pax |-> prev_accel_x,
     has |-> has_prev_reading, inited |-> initialized]

NoInput == [t |-> 0, k |-> 0, text |-> <<>>, kind |-> "none", d |-> <<>>]
Chunk(k, t, d) == [t |-> t, k |-> k, text |-> <<>>, kind |-> "chunk", d |-> d]
Raw(text) == [t |-> 0, k |-> 0, text |-> text, kind |-> "raw", d |-> <<>>]

\* what a handler starts from: the state, and the index of the fragment the
\* handler before it refused for overflow (0 when it refused none)
Snapshot ==
    [acc |-> accumulated_angle,
     conn |-> s_connected, running |-> gait_running,
     dir |-> gait_direction, phase |-> gait_phase, len |-> s_chunk_len,
     exp |-> s_chunk_expected, rcv |-> s_chunk_received,
     buf |-> s_chunk_buffer, en |-> gyro_stabilize_enabled,
     now |-> tick_count, lst |-> last_stabilize_time,
     filt |-> gyro_filtered_y, prev |-> prev_accumulated_angle,
     lrt |-> last_reaction_time, pax |-> prev_accel_x,
     has |-> has_prev_reading,
     ovf |-> IF inp.kind = "chunk" /\ tr = <<Resp("err_overflow", 0)>>
             THEN inp.k ELSE 0]

NoRun == [n |-> 0, i |-> 0, on |-> FALSE, cat |-> <<>>]

\* the peer's view of an in-order delivery: it starts with fragment 1 at an
\* idle assembler and goes on while the next index of the same total follows
NextRun(data) ==
    IF data.kind = "chunk" /\ data.k = 1 /\ data.t >= 1
       /\ s_chunk_len = 0 /\ s_chunk_expected = 0 /\ s_chunk_received = 0
    THEN [n |-> data.t, i |-> 1, on |-> TRUE, cat |-> data.d]
    ELSE IF data.kind = "chunk" /\ run.on /\ run.i < run.n
            /\ data.k = run.i + 1 /\ data.t = run.n
    THEN [run EXCEPT !.i = data.k, !.cat = @ \o data.d]
    ELSE NoRun

StepCore(m, name, data, args) ==
    /\ s_chunk_buffer' = m.buf
    /\ s_chunk_len' = m.len
    /\ s_chunk_expected' = m.exp
    /\ s_chunk_received' = m.rcv
    /\ s_connected' = m.conn
    /\ gait_running' = m.running
    /\ gait_direction' = m.dir
    /\ gait_phase' = m.phase
    /\ gyro_stabilize_enabled' = m.en
    /\ gyro_filtered_y' = m.filt
    /\ accumulated_angle' = m.acc
    /\ prev_accumulated_angle' = m.prev
    /\ last_stabilize_time' = m.lst
    /\ last_reaction_time' = m.lrt
    /\ initialized' = m.inited
    /\ prev_accel_x' = m.pax
    /\ has_prev_reading' = m.has
    /\ tick_count' = m.now
    /\ tr' = m.tr
    /\ inp' = data
    /\ pre' = Snapshot
    /\ last' = name
    /\ call' = args
    /\ fired' = IF name = "process_imu"
                   /\ SelectSeq(m.tr, LAMBDA e : e.op = "servo") # <<>>
                THEN <<fired[2], m.now, fired[4], m.acc>> ELSE fired
    /\ triggers' = IF m.lrt # last_reaction_time THEN triggers + 1 ELSE triggers
    /\ run' = NextRun(data)
    /\ assembled' =
           IF name # "receive"
           THEN IF m.rcv = 0 THEN <<<<>>, FALSE>> ELSE assembled
           ELSE IF data.kind = "chunk"
           THEN LET acks == SelectSeq(m.tr, LAMBDA e : e.op = "resp" /\ e.msg = "ack")
                IN IF acks = <<>> THEN <<<<>>, FALSE>>
                   ELSE IF acks[1].n = 1 THEN <<data.d, FALSE>>
                   ELSE <<assembled[1] \o data.d, assembled[2]>>
           ELSE IF s_chunk_received >= 1 THEN <<assembled[1], TRUE>>
           ELSE <<<<>>, FALSE>>
    /\ trigger_kind' =
           <<trigger_kind[2],
             IF SelectSeq(m.tr, LAMBDA e : e.op = "trigger") = <<>>
             THEN trigger_kind[2]
             ELSE IF SelectSeq(m.tr, LAMBDA e : e.op = "walk") # <<>>
             THEN "front" ELSE "back">>

\* a handler that runs to its end without a pause
StepCall(m, name, data, args) ==
    /\ StepCore(m, name, data, args)
    /\ UNCHANGED <<transport_pending, transport_wake, control_pending>>

Step(m, name, data) == StepCall(m, name, data, <<>>)

Init ==
    /\ s_chunk_buffer = <<>>
    /\ s_chunk_len = 0
    /\ s_chunk_expected = 0
    /\ s_chunk_received = 0
    /\ s_connected = FALSE
    /\ gait_running = FALSE
    /\ gait_direction = "stop"
    /\ gait_phase = 0
    /\ gyro_stabilize_enabled = REACTION_GYRO_STABILIZE_ENABLED_DEFAULT
    /\ gyro_filtered_y = 0
    /\ accumulated_angle = 0
    /\ prev_accumulated_angle = 0
    /\ last_stabilize_time = 0
    /\ last_reaction_time = 0
    /\ initialized = FALSE
    /\ prev_accel_x = 0
    /\ has_prev_reading = FALSE
    /\ tick_count = 0
    /\ tr = <<>>
    /\ inp = NoInput
    /\ pre = [acc |-> 0,
              conn |-> FALSE, running |-> FALSE, dir |-> "stop", phase |-> 0,
              len |-> 0, exp |-> 0, rcv |-> 0, buf |-> <<>>,
              en |-> REACTION_GYRO_STABILIZE_ENABLED_DEFAULT, now |-> 0,
              lst |-> 0, filt |-> 0, prev |-> 0, lrt |-> 0, pax |-> 0,
              has |-> FALSE, ovf |-> 0]
    /\ last = "init"
    /\ call = <<>>
    /\ fired = <<-1, -1, 0, 0>>
    /\ triggers = 0
    /\ run = NoRun
    /\ transport_pending = <<>>
    /\ transport_wake = -1
    /\ control_pending = <<>>
    /\ trigger_kind = <<"none", "none">>
    /\ assembled = <<<<>>, FALSE>>

\* ------------------------------------------------------------------------
\* Inbound buffers the peer sends
\* ------------------------------------------------------------------------
TextPing == <<"{", "p", ":", "1", "}">>
TextStance == <<"{", "r", ":", "1", "}">>
Move1 == <<"[", "90", ",", "90", ",", "270", ",", "270", ",", "1000", ",", "0", "]">>
Move2 == <<"[", "60", ",", "120", ",", "270", ",", "270", ",", "500", ",", "20", "]">>
Move3 == <<"[", "120", ",", "60", ",", "90", ",", "90", ",", "1000", "]">>
TextSingle == <<"{", "s", ":">> \o Move1 \o <<"}">>
TextSingleDelay == <<"{", "s", ":">> \o Move2 \o <<"}">>
TextSequence ==
    <<"{", "m", ":", "[">> \o Move1 \o <<",">> \o Move3 \o <<",">> \o Move2
    \o <<"]", "}">>
TextUnknown == <<"{", "x", ":", "1", "}">>
TextGarbage == <<"?">>
TextNoData == <<"{", "k", ":", "1", ",", "t", ":", "2", "}">>
TextBadIndex == <<"{", "k", ":", "x", ",", "t", ":", "1", ",", "d", ":", "x", "}">>

\* payloads carrying several keys, and payloads that are no command
TextSinglePing == <<"{", "s", ":">> \o Move1 \o <<",", "p", ":", "1", "}">>
TextPingSequence ==
    <<"{", "p", ":", "1", ",", "m", ":", "[">> \o Move1 \o <<"]", "}">>
TextStancePing == <<"{", "r", ":", "1", ",", "p", ":", "1", "}">>
TextSequenceSingle ==
    <<"{", "m", ":", "[">> \o Move1 \o <<"]", ",", "s", ":">> \o Move3 \o <<"}">>
TextBadSinglePing == <<"{", "s", ":", "1", ",", "p", ":", "1", "}">>
TextBadSingle == <<"{", "s", ":", "1", "}">>
TextNumber == <<"1">>
TextArray == Move1

RawTexts ==
    {TextPing, TextStance, TextSingle, TextSingleDelay, TextSequence,
     TextUnknown, TextGarbage, TextNoData, TextBadIndex,
     TextSinglePing, TextPingSequence, TextStancePing, TextSequenceSingle,
     TextBadSinglePing, TextBadSingle, TextNumber, TextArray}

PingHead == <<"{", "p">>
PingTail == <<":", "1", "}">>
\* the last one is too long to follow another pad in the buffer
Payloads == {TextPing, <<WS>>, <<PAD>>, <<PAD, WS, WS>>}

\* indices and totals: in range, and beyond the range of uint8_t
Indices == (0..MaxIdx) \cup {UINT8_MOD + 1}
Totals == (1..MaxIdx) \cup {UINT8_MOD + 1}

Chunks == {Chunk(k, t, d) : k \in Indices, t \in Totals, d \in Payloads}

\* ------------------------------------------------------------------------
\* Operations
\* ------------------------------------------------------------------------
\* chr_access_cb, BLE_GATT_ACCESS_OP_WRITE_CHR: one write of the peer
Receive(data) ==
    /\ s_connected
    /\ Step(handle_incoming_data(Machine, data), "receive", data)

ReceiveChunk == \E data \in Chunks : Receive(data)
\* the two halves of a ping, as fragments of a two-fragment message
ReceiveFragment ==
    \E k \in 1..2, d \in {PingHead, PingTail} : Receive(Chunk(k, 2, d))
ReceiveRaw == \E text \in RawTexts : Receive(Raw(text))
\* plain texts between fragments
AsmRawTexts == {TextPing, TextGarbage, TextNoData, TextBadIndex}
ReceivePlain == \E text \in AsmRawTexts : Receive(Raw(text))

\* gap_event_cb, BLE_GAP_EVENT_CONNECT with status 0
Connect ==
    /\ ~s_connected
    /\ Step(on_connect([Machine EXCEPT !.conn = TRUE], TRUE), "connect", NoInput)

\* gap_event_cb, BLE_GAP_EVENT_DISCONNECT
Disconnect ==
    /\ s_connected
    /\ Step(on_connect([Machine EXCEPT !.conn = FALSE], FALSE), "disconnect", NoInput)

GaitStart ==
    \E direction \in GaitDirections :
        Step(crawl_gait_start(Machine, direction), "gait_start", NoInput)

GaitSetDirection ==
    \E direction \in GaitDirections :
        Step(crawl_gait_set_direction(Machine, direction), "gait_set_direction", NoInput)

GaitStop == Step(crawl_gait_stop(Machine), "gait_stop", NoInput)

GaitPhase ==
    /\ gait_running
    /\ Step(crawl_gait_phase(Machine), "gait_phase", NoInput)

\* dog_servo_move and dog_servo_move_all, called with angles of the grid
Angles == {30 * i : i \in 0..MaxTurn}
StanceAngles == {DOG_STANCE_FRONT, DOG_STANCE_BACK, 0}
Speeds == {DOG_DEFAULT_SPEED, 0}

ServoMove ==
    \E id \in DOG_SERVO_FR..DOG_SERVO_COUNT, angle \in Angles, speed \in Speeds :
        StepCall(dog_servo_move(Machine, id, angle, speed), "servo_move",
                 NoInput, <<id, angle, speed>>)

ServoMoveAll ==
    \E fr \in StanceAngles, fl \in StanceAngles, br \in StanceAngles,
       bl \in StanceAngles :
        StepCall(dog_servo_move_all(Machine, fr, fl, br, bl, DOG_DEFAULT_SPEED),
                 "servo_move_all", NoInput, <<fr, fl, br, bl, DOG_DEFAULT_SPEED>>)

\* the control loop: inertial samples, the stabilization switch and the clock
GyroRates == {-10000, -500, 0, 500, 10000}
Accels == {0, 60}

ReactionInit == StepCall(reaction_init(Machine), "reaction_init", NoInput, <<>>)

StabilizeEnable ==
    \E enable \in BOOLEAN :
        StepCall(reaction_gyro_stabilize_enable(Machine, enable),
                 "stabilize_enable", NoInput, <<enable>>)

ProcessImu ==
    \E gyro_y \in GyroRates, accel_x \in Accels :
        StepCall(reaction_process_imu(Machine, gyro_y, accel_x),
                 "process_imu", NoInput, <<gyro_y, accel_x>>)

\* the tick interrupt
TickClock ==
    /\ tick_count < MaxTicks
    /\ StepCall([Machine EXCEPT !.now = @ + 1], "tick", NoInput, <<>>)

NextStab ==
    \/ ReactionInit
    \/ StabilizeEnable
    \/ ProcessImu
    \/ TickClock

SpecStab == Init /\ [][NextStab]_vars

\* the push detector: samples with a still gyro, and a clock that steps by
\* half a cooldown
PushAccels == {-48, -47, -46, -3, 2, 3, 47, 60}
COOLDOWN_HALF_TICKS == (REACTION_COOLDOWN_MS \div 2) \div portTICK_PERIOD_MS

ProcessImuPush ==
    \E accel_x \in PushAccels :
        StepCall(reaction_process_imu(Machine, 0, accel_x),
                 "process_imu", NoInput, <<0, accel_x>>)

PushClock ==
    /\ tick_count < MaxHalves * COOLDOWN_HALF_TICKS
    /\ StepCall([Machine EXCEPT !.now = @ + COOLDOWN_HALF_TICKS], "tick",
                NoInput, <<>>)

NextPush ==
    \/ ReactionInit
    \/ ProcessImuPush
    \/ PushClock

SpecPush == Init /\ [][NextPush]_vars

\* the gait engine and the stabilization switch side by side, with the
\* events that cancel a gait
ReceiveStance == Receive(Raw(TextStance))

NextCtl ==
    \/ Connect
    \/ Disconnect
    \/ ReceiveStance
    \/ GaitStart
    \/ GaitSetDirection
    \/ GaitStop
    \/ GaitPhase
    \/ StabilizeEnable

SpecCtl == Init /\ [][NextCtl]_vars

\* ------------------------------------------------------------------------
\* The transport context and the control loop as two tasks
\* ------------------------------------------------------------------------
pdMS_TO_TICKS(ms) == ms \div portTICK_PERIOD_MS

\* a pause that spins with the scheduler locked
vTaskDelay_holds_cpu_busy == transport_wake # -1

\* main.c:51, dog_config.c:394: the pause is vTaskDelay, which blocks the
\* calling task and leaves the processor to the other tasks
vTaskDelay_holds_cpu == FALSE

TransportIdle == transport_wake = -1
TransportPaused == transport_wake # -1

\* the first pause in a record of effects, 0 when it has none
FirstDelay(t) ==
    LET ds == {i \in 1..Len(t) : t[i].op = "delay"}
    IN IF ds = {} THEN 0 ELSE Min(ds)

\* the transport task runs the effects t of its handler up to the first
\* pause and blocks there
TransportRun(m, t, name, data) ==
    LET d == FirstDelay(t)
    IN /\ StepCore([m EXCEPT !.tr = IF d = 0 THEN t ELSE SubSeq(t, 1, d)],
                   name, data, <<>>)
       /\ transport_pending' = IF d = 0 THEN <<>> ELSE SubSeq(t, d + 1, Len(t))
       /\ transport_wake' = IF d = 0 THEN -1 ELSE m.now + pdMS_TO_TICKS(t[d].n)
       /\ UNCHANGED control_pending

TextSequencePaused ==
    <<"{", "m", ":", "[">> \o Move2 \o <<",">> \o Move1 \o <<",">> \o Move2
    \o <<"]", "}">>
PausedTexts == {TextSingleDelay, TextSequencePaused}

\* a write delivered to the transport task, which is not in a pause
TransportReceive ==
    \E text \in PausedTexts :
        /\ s_connected
        /\ TransportIdle
        /\ LET m == handle_incoming_data(Machine, Raw(text))
           IN TransportRun(m, m.tr, "receive", Raw(text))

\* the pause ends and the handler goes on
TransportResume ==
    /\ TransportPaused
    /\ tick_count >= transport_wake
    /\ TransportRun(Machine, transport_pending, "resume", inp)

TransportConnect == TransportIdle /\ Connect

ControlRates == {10000}
\* one step of the control loop
ControlLoop ==
    /\ ~vTaskDelay_holds_cpu
    /\ \E gyro_y \in ControlRates :
           \E m \in {reaction_process_imu(Machine, gyro_y, 0)} :
               StepCall(m, "process_imu", NoInput, <<gyro_y, 0>>)

\* the tick interrupt, for as long as two update intervals
MaxPauseTicks == 10
PauseClock ==
    /\ tick_count < MaxPauseTicks
    /\ StepCall([Machine EXCEPT !.now = @ + 1], "tick", NoInput, <<>>)

NextConc ==
    \/ TransportConnect
    \/ TransportReceive
    \/ TransportResume
    \/ ReactionInit
    \/ ControlLoop
    \/ PauseClock

SpecConc == Init /\ [][NextConc]_vars

\* dog_init, with the bus coming up or not and any set of legs answering
DogInit ==
    \E bus_ok \in BOOLEAN, responds \in SUBSET (DOG_SERVO_FR..DOG_SERVO_COUNT) :
        StepCall(dog_init(Machine, bus_ok, responds), "dog_init", NoInput,
                 <<bus_ok, responds>>)

\* ------------------------------------------------------------------------
\* Move commands of every arity, element type and speed
\* ------------------------------------------------------------------------
MoveShort == <<"[", "90", ",", "90", ",", "270", ",", "270", "]">>
MoveTyped == <<"[", "90", ",", "x", ",", "270", ",", "270", ",", "1000", "]">>
MoveSpeed(speed) ==
    <<"[", "90", ",", "90", ",", "270", ",", "270", ",", speed, "]">>
SpeedUnits == {"0", "1000", "5000", "70000", "-1"}

TextSingleOf(move) == <<"{", "s", ":">> \o move \o <<"}">>
\* a sequence with the move between two well-formed ones
TextSequenceOf(move) ==
    <<"{", "m", ":", "[">> \o Move1 \o <<",">> \o move \o <<",">> \o Move3
    \o <<"]", "}">>
MoveShapes == {MoveShort, MoveTyped} \cup {MoveSpeed(speed) : speed \in SpeedUnits}
MoveTexts ==
    {TextSingleOf(move) : move \in MoveShapes}
    \cup {TextSequenceOf(move) : move \in MoveShapes}

ReceiveMove == \E text \in MoveTexts : Receive(Raw(text))

NextMove ==
    \/ Connect
    \/ Disconnect
    \/ ReceiveMove
    \/ GaitStart
    \/ GaitStop

SpecMove == Init /\ [][NextMove]_vars

\* ------------------------------------------------------------------------
\* Fragments whose declared total starts at 0
\* ------------------------------------------------------------------------
TotalsFromZero == 0..MaxIdx
ShortPayloads == {TextPing, <<WS>>}
ChunksFromZero ==
    {Chunk(k, t, d) : k \in 0..MaxIdx, t \in TotalsFromZero, d \in ShortPayloads}

ReceiveChunkFromZero == \E data \in ChunksFromZero : Receive(data)

NextZero ==
    \/ Connect
    \/ Disconnect
    \/ ReceiveChunkFromZero

SpecZero == Init /\ [][NextZero]_vars

\* ------------------------------------------------------------------------
\* The two tasks statement by statement: no lock, critical section or queue
\* stands between the callers of dog_servo_move_all and of
\* reaction_gyro_stabilize_enable, so a task's statements come between those
\* of a call in the other task. tr is here the record of the servo bus since
\* the earlier of the calls in progress began, and call holds the commands of
\* the last call of each task, transport first.
\* ------------------------------------------------------------------------
\* reaction_config.c:158, the store that ends reaction_gyro_stabilize_enable
Store(enable) == Ev("store", "", IF enable THEN 1 ELSE 0, 0, 0, 0, <<>>)

\* the sts_servo_set_angle calls in a record of effects
ServoCommands(t) == SelectSeq(t, LAMBDA e : e.op = "servo")

TransportCalling == transport_pending # <<>>
ControlCalling == control_pending # <<>>

\* the servo commands of the last call of each task
LastCalls == IF call = <<>> THEN <<<<>>, <<>>>> ELSE call

\* a call begins: its state changes up to its first servo command are made,
\* and its commands wait in pending
BusAtCall(other_calling) == IF other_calling THEN tr ELSE <<>>

\* the bus record runs up to MaxBus commands
MaxBus == 8
BusHasRoom == Len(tr) + DOG_SERVO_COUNT <= MaxBus

RaceTexts == {TextStance, TextSingleOf(Move3)}

\* one statement of the call in progress: a servo command, or the store
RaceStatement(m, e) ==
    IF e.op = "store" THEN [m EXCEPT !.en = (e.n = 1)] ELSE Emit(m, e)

\* chr_access_cb in the transport task: a stance or a move command
TransportCommand ==
    \E text \in RaceTexts :
        /\ s_connected
        /\ ~TransportCalling
        /\ ControlCalling => BusHasRoom
        /\ \E m \in {handle_incoming_data(Machine, Raw(text))} :
               /\ StepCore([m EXCEPT !.tr = BusAtCall(ControlCalling)],
                           "transport_call", Raw(text),
                           <<ServoCommands(m.tr), LastCalls[2]>>)
               /\ transport_pending' = ServoCommands(m.tr)
               /\ UNCHANGED <<transport_wake, control_pending>>

\* reaction_gyro_stabilize_enable called in the transport task: the test of
\* lines 146 and 153 and the resets are made, the stance commands and the
\* store of line 158 are still to come
TransportStabilizeEnable ==
    \E enable \in BOOLEAN :
        /\ ~TransportCalling
        /\ ControlCalling => BusHasRoom
        /\ \E m \in {reaction_gyro_stabilize_enable(Machine, enable)} :
               /\ StepCore([m EXCEPT !.tr = BusAtCall(ControlCalling),
                                     !.en = gyro_stabilize_enabled],
                           IF enable THEN "enable_call" ELSE "disable_call",
                           NoInput, <<ServoCommands(m.tr), LastCalls[2]>>)
               /\ transport_pending' = ServoCommands(m.tr) \o <<Store(enable)>>
               /\ UNCHANGED <<transport_wake, control_pending>>

\* the next statement of the transport task's call
TransportStatement ==
    /\ TransportCalling
    /\ StepCore(RaceStatement([Machine EXCEPT !.tr = tr], Head(transport_pending)),
                IF Len(transport_pending) = 1 THEN "transport_return"
                ELSE "transport_statement", inp, call)
    /\ transport_pending' = Tail(transport_pending)
    /\ UNCHANGED <<transport_wake, control_pending>>

\* reaction_process_imu in the control-loop task, up to the call of
\* dog_servo_move_all at reaction_config.c:141
ControlSample ==
    \E gyro_y \in ControlRates :
        /\ ~ControlCalling
        /\ TransportCalling => BusHasRoom
        /\ \E m \in {reaction_process_imu(Machine, gyro_y, 0)} :
               /\ StepCore([m EXCEPT !.tr = BusAtCall(TransportCalling)],
                           "control_call", inp,
                           <<LastCalls[1], ServoCommands(m.tr)>>)
               /\ control_pending' = ServoCommands(m.tr)
               /\ UNCHANGED <<transport_wake, transport_pending>>

\* the next sts_servo_set_angle of the control-loop task's dog_servo_move_all
ControlStatement ==
    /\ ControlCalling
    /\ StepCore(RaceStatement([Machine EXCEPT !.tr = tr], Head(control_pending)),
                IF Len(control_pending) = 1 THEN "control_return"
                ELSE "control_statement", inp, call)
    /\ control_pending' = Tail(control_pending)
    /\ UNCHANGED <<transport_wake, transport_pending>>

RaceQuiet == ~TransportCalling /\ ~ControlCalling

\* the tick interrupt, an update interval at a time; the bus record is kept
UPDATE_INTERVAL_TICKS == pdMS_TO_TICKS(REACTION_GYRO_UPDATE_INTERVAL_MS)
RaceClock ==
    /\ tick_count + UPDATE_INTERVAL_TICKS <= MaxPauseTicks
    /\ StepCore([Machine EXCEPT !.tr = tr, !.now = @ + UPDATE_INTERVAL_TICKS],
                "tick", inp, call)
    /\ UNCHANGED <<transport_wake, transport_pending, control_pending>>

NextRace ==
    \/ RaceQuiet /\ Connect
    \/ RaceQuiet /\ ReactionInit
    \/ TransportCommand
    \/ TransportStabilizeEnable
    \/ TransportStatement
    \/ ControlSample
    \/ ControlStatement
    \/ RaceClock

SpecRace == Init /\ [][NextRace]_vars


\* the leg functions alone
NextLeg ==
    \/ ServoMove
    \/ ServoMoveAll
    \/ DogInit

SpecLeg == Init /\ [][NextLeg]_vars

\* the transport context alone, with every fragment the peer may send
NextAsm ==
    \/ Connect
    \/ Disconnect
    \/ ReceiveChunk
    \/ ReceivePlain

SpecAsm == Init /\ [][NextAsm]_vars

\* commands, connection events and the gait engine
Next ==
    \/ Connect
    \/ Disconnect
    \/ ReceiveFragment
    \/ ReceiveRaw
    \/ GaitStart
    \/ GaitSetDirection
    \/ GaitStop
    \/ GaitPhase

Spec == Init /\ [][Next]_vars

\* ------------------------------------------------------------------------
\* Reading the record of a handler
\* ------------------------------------------------------------------------
OfOp(t, op) == SelectSeq(t, LAMBDA e : e.op = op)
Acks(t) == SelectSeq(t, LAMBDA e : e.op = "resp" /\ e.msg = "ack")
Errs(t) == SelectSeq(t, LAMBDA e : e.op = "resp" /\ e.msg \in {"err_chunk_seq", "err_overflow"})
Idle ==
    /\ s_chunk_len = 0 /\ s_chunk_expected = 0 /\ s_chunk_received = 0
    /\ s_chunk_buffer = <<>>
GotChunk == last = "receive" /\ inp.kind = "chunk"
\* lastReceived, the recorded total and the accumulated length a fragment is
\* validated against: those of a fresh message when it is fragment 1
SeqReceived == IF inp.k = 1 THEN 0 ELSE pre.rcv
SeqTotal == IF inp.k = 1 THEN inp.t ELSE pre.exp
SeqLen == IF inp.k = 1 THEN 0 ELSE pre.len
InSequence == inp.k = SeqReceived + 1 /\ inp.t = SeqTotal
SeqErrorOnly == tr = <<Resp("err_chunk_seq", 0)>> /\ Idle

\* C1: in-order reassembly.  While the peer delivers the fragments 1..N of
\* one message in order, starting at an idle assembler, and the payloads
\* together fit the buffer with its terminator, nothing is forwarded before
\* fragment N, and at fragment N exactly the concatenation of the payloads is
\* forwarded and the assembler is idle again.
C1_InOrderReassembly ==
    (run.on /\ strlen(run.cat) <= CHUNK_BUFFER_SIZE - 1) =>
        IF run.i < run.n
        THEN OfOp(tr, "cmd") = <<>>
        ELSE OfOp(tr, "cmd") = <<Cmd(run.cat)>> /\ Idle

\* C1 holds of the messages whose total is a uint8_t and whose bytes the
\* capacity test lets in.
C1_InRange ==
    (run.on /\ run.n < UINT8_MOD /\ strlen(run.cat) < CHUNK_BUFFER_SIZE - 1) =>
        IF run.i < run.n
        THEN OfOp(tr, "cmd") = <<>>
        ELSE OfOp(tr, "cmd") = <<Cmd(run.cat)>> /\ Idle

\* C2: sequence validation.  A fragment is accepted (acked) only if its index
\* is lastReceived+1 and its total is the recorded total; any other fragment
\* gets exactly the chunk_seq error, no ack, nothing forwarded, and leaves
\* the assembler reset.
C2_SequenceValidation ==
    GotChunk =>
        /\ (Acks(tr) # <<>> => InSequence)
        /\ (~InSequence => SeqErrorOnly)

\* C2 holds of the fragments whose index and total are uint8_t values.
C2_InRange ==
    (GotChunk /\ inp.k < UINT8_MOD /\ inp.t < UINT8_MOD) =>
        /\ (Acks(tr) # <<>> => InSequence)
        /\ (~InSequence => SeqErrorOnly)

\* C3: overflow handling.  An in-sequence fragment whose payload does not fit
\* the buffer resets the assembler and gets exactly the overflow error (no
\* ack, nothing forwarded); the next fragment of that message is then
\* refused with chunk_seq.
C3_Overflow ==
    GotChunk =>
        /\ (InSequence /\ SeqLen + strlen(inp.d) + 1 > CHUNK_BUFFER_SIZE)
              => (tr = <<Resp("err_overflow", 0)>> /\ Idle)
        /\ (pre.ovf > 0 /\ inp.k = pre.ovf + 1) => SeqErrorOnly

C3_Witness ==
    /\ GotChunk /\ pre.ovf = 2 /\ inp.k = 3 /\ inp.t = 3
    /\ tr = <<Resp("err_chunk_seq", 0)>>

\* C4: capacity invariant.  The accumulated length is the length of the
\* accumulated bytes and never exceeds CHUNK_BUFFER_SIZE - 1.
C4_Capacity ==
    /\ s_chunk_len = strlen(s_chunk_buffer)
    /\ s_chunk_len <= CHUNK_BUFFER_SIZE - 1

C4_Witness ==
    /\ s_chunk_len = 2 * PadBytes /\ s_chunk_received = 2
    /\ s_chunk_len + 1 >= CHUNK_BUFFER_SIZE - 1

\* C5 as stated: during assembly every fragment whose index is at most
\* lastReceived, a repeat of fragment 1 included, is refused with chunk_seq,
\* a reset and no ack.
C5_Original ==
    (GotChunk /\ pre.rcv >= 1 /\ inp.k <= pre.rcv) => SeqErrorOnly

\* C5 (amended): during assembly a fragment whose index is in 2..lastReceived
\* is refused with chunk_seq, a reset and no ack; a repeat of fragment 1 is
\* not an error: it discards the partial message, starts a new one and is
\* acked as fragment 1.
C5_Duplicates ==
    (GotChunk /\ pre.rcv >= 1) =>
        /\ (inp.k \in 2..pre.rcv => SeqErrorOnly)
        /\ (inp.k = 1 =>
              /\ Errs(tr) = <<>>
              /\ tr[1] = Resp("ack", 1)
              /\ \/ Idle /\ OfOp(tr, "cmd") = <<Cmd(inp.d)>>
                 \/ /\ s_chunk_received = 1 /\ s_chunk_buffer = inp.d
                    /\ OfOp(tr, "cmd") = <<>>)

C5_Witness ==
    /\ GotChunk /\ pre.rcv = 2 /\ inp.k = 2 /\ inp.t = pre.exp
    /\ tr = <<Resp("err_chunk_seq", 0)>>

\* C6: acknowledgement protocol.  An accepted fragment gets exactly one ack,
\* carrying the index the peer sent, before anything the reassembled command
\* does; a refused fragment gets none.
C6_Acknowledgement ==
    GotChunk =>
        IF Errs(tr) # <<>>
        THEN Acks(tr) = <<>>
        ELSE Acks(tr) = <<Resp("ack", inp.k)>> /\ tr[1] = Resp("ack", inp.k)

\* C6 holds of the fragments whose index is a uint8_t value.
C6_InRange ==
    (GotChunk /\ inp.k < UINT8_MOD) =>
        IF Errs(tr) # <<>>
        THEN Acks(tr) = <<>>
        ELSE Acks(tr) = <<Resp("ack", inp.k)>> /\ tr[1] = Resp("ack", inp.k)

\* C7: unframed pass-through.  A buffer that parses as JSON and lacks one of
\* the chunk fields (numeric k, numeric t, string d) is handed to the command
\* interpreter once, unchanged, before anything else, with no ack and no err.
LacksChunkFields(json) ==
    \/ cJSON_GetObjectItem(json, "k").ty # "num"
    \/ cJSON_GetObjectItem(json, "t").ty # "num"
    \/ cJSON_GetObjectItem(json, "d").ty # "str"

C7_PassThrough ==
    (/\ last = "receive" /\ inp.kind = "raw"
     /\ ParseText(inp.text) # JNull /\ LacksChunkFields(ParseText(inp.text)))
        => /\ OfOp(tr, "cmd") = <<Cmd(inp.text)>>
           /\ tr[1] = Cmd(inp.text)
           /\ Acks(tr) = <<>> /\ Errs(tr) = <<>>

C7_Witness ==
    /\ last = "receive" /\ inp = Raw(TextNoData) /\ pre.rcv = 1
    /\ tr = <<Cmd(TextNoData)>>

\* ------------------------------------------------------------------------
\* Commands
\* ------------------------------------------------------------------------
\* where the last handler handed text to process_command (0: nowhere), and
\* what it did from there on
CmdAt(text) ==
    LET hits == {i \in 1..Len(tr) : tr[i] = Cmd(text)}
    IN IF hits = {} THEN 0 ELSE Min(hits)
AfterCmd(text) == SubSeq(tr, CmdAt(text) + 1, Len(tr))
GaitUnchanged ==
    /\ gait_running = pre.running /\ gait_direction = pre.dir
    /\ gait_phase = pre.phase
AssemblyUnchanged ==
    /\ s_chunk_buffer = pre.buf /\ s_chunk_len = pre.len
    /\ s_chunk_expected = pre.exp /\ s_chunk_received = pre.rcv
\* the legs a record of effects commands, as <<id, angle, speed>>
Legs(t) ==
    LET sv == OfOp(t, "servo")
    IN [i \in 1..Len(sv) |-> <<sv[i].id, sv[i].angle, sv[i].speed>>]
\* physical stance angles: FR 270, FL 90, BR 90, BL 270
StanceLegs == <<<<1, 270>>, <<2, 90>>, <<3, 90>>, <<4, 270>>>>

\* C8: ping.  Whatever the gait and the assembler are doing, {"p":1} given
\* to the command interpreter is answered by exactly {"p":1}, commands no
\* servo and changes no gait state; arriving unframed it leaves the
\* assembly state as it was.
C8_Ping ==
    (last = "receive" /\ CmdAt(TextPing) > 0) =>
        /\ AfterCmd(TextPing) = <<Resp("p", 1)>>
        /\ OfOp(tr, "servo") = <<>>
        /\ GaitUnchanged
        /\ inp.kind = "raw" =>
              (tr = <<Cmd(TextPing), Resp("p", 1)>> /\ AssemblyUnchanged)

C8_Witness ==
    /\ last = "receive" /\ inp = Raw(TextPing)
    /\ pre.running /\ pre.rcv = 1
    /\ tr = <<Cmd(TextPing), Resp("p", 1)>>

\* C9: return to stance.  {"r":1} commands servos only, the last four
\* putting the four legs at stance, then answers exactly one {"ok":1}, and
\* leaves the gait engine not running, whether or not it was running.
C9_ReturnToStance ==
    (last = "receive" /\ CmdAt(TextStance) > 0) =>
        LET rest == AfterCmd(TextStance)
            n == Len(rest)
        IN /\ n >= 5
           /\ rest[n] = Resp("ok", 1)
           /\ \A j \in 1..(n - 1) : rest[j].op = "servo"
           /\ [j \in 1..4 |-> <<rest[n - 5 + j].id, rest[n - 5 + j].angle>>]
                 = StanceLegs
           /\ ~gait_running

C9_Witness ==
    /\ last = "receive" /\ inp = Raw(TextStance)
    /\ pre.running /\ ~gait_running
    /\ tr[Len(tr)] = Resp("ok", 1)

\* C10: move sequence.  {"m":[m1,m2,m3]} commands the legs move by move in
\* array order, each move once, and then answers exactly one {"ok":1} as the
\* last thing it does, after the pause of the last move; a single move
\* {"s":[...]} commands its four legs and answers nothing.
MoveLegs(fr, fl, br, bl, speed) ==
    << <<DOG_SERVO_FR, apply_reversal(DOG_SERVO_FR, fr), speed>>,
       <<DOG_SERVO_FL, fl, speed>>,
       <<DOG_SERVO_BR, apply_reversal(DOG_SERVO_BR, br), speed>>,
       <<DOG_SERVO_BL, bl, speed>> >>
\* the legs of Move1, Move3, Move2, in the order of TextSequence
SequenceLegs ==
    MoveLegs(90, 90, 270, 270, 1000) \o MoveLegs(120, 60, 90, 90, 1000)
    \o MoveLegs(60, 120, 270, 270, 500)

C10_MoveSequence ==
    last = "receive" =>
        /\ inp = Raw(TextSequence) =>
              /\ Legs(tr) = SequenceLegs
              /\ OfOp(tr, "resp") = <<Resp("ok", 1)>>
              /\ tr[Len(tr)] = Resp("ok", 1)
              /\ tr[Len(tr) - 1].op = "delay"
        /\ inp = Raw(TextSingle) =>
              /\ Legs(tr) = SubSeq(SequenceLegs, 1, 4)
              /\ OfOp(tr, "resp") = <<>>
        /\ inp = Raw(TextSingleDelay) =>
              /\ Legs(tr) = SubSeq(SequenceLegs, 9, 12)
              /\ OfOp(tr, "resp") = <<>>

C10_Witness ==
    /\ last = "receive" /\ inp = Raw(TextSequence)
    /\ Len(OfOp(tr, "servo")) = 12 /\ OfOp(tr, "delay") # <<>>
    /\ tr[Len(tr)] = Resp("ok", 1)

\* C11: shape priority.  A payload executes one shape only, the first of
\* s, m, p, r it carries whatever the order of its keys, and gets that
\* shape's response only: none for s, {"ok":1} for m and r, {"p":1} for p.
C11_ShapePriority ==
    (last = "receive" /\ inp.kind = "raw") =>
        /\ Len(OfOp(tr, "resp")) <= 1
        /\ inp.text = TextSinglePing =>
              /\ Legs(tr) = MoveLegs(90, 90, 270, 270, 1000)
              /\ OfOp(tr, "resp") = <<>>
        /\ inp.text = TextSequenceSingle =>
              /\ Legs(tr) = MoveLegs(120, 60, 90, 90, 1000)
              /\ OfOp(tr, "resp") = <<>>
        /\ inp.text = TextPingSequence =>
              /\ Legs(tr) = MoveLegs(90, 90, 270, 270, 1000)
              /\ OfOp(tr, "resp") = <<Resp("ok", 1)>>
        /\ inp.text \in {TextStancePing, TextBadSinglePing} =>
              /\ tr = <<Cmd(inp.text), Resp("p", 1)>>
              /\ GaitUnchanged

C11_Witness ==
    /\ last = "receive" /\ inp = Raw(TextStancePing) /\ pre.running
    /\ gait_running /\ tr = <<Cmd(TextStancePing), Resp("p", 1)>>

\* C12: malformed input is absorbed.  A buffer that is no JSON reaches no
\* command; a text handed to the command interpreter that is no JSON, or
\* carries none of the shapes s (array), m (array), p, r, does nothing from
\* there on: no response, no servo command, no pause, the gait as it was;
\* arriving unframed it leaves the assembly state as it was too.
NoShape(text) ==
    LET json == ParseText(text)
    IN \/ json = JNull
       \/ /\ cJSON_GetObjectItem(json, "s").ty # "arr"
          /\ cJSON_GetObjectItem(json, "m").ty # "arr"
          /\ cJSON_GetObjectItem(json, "p") = JNull
          /\ cJSON_GetObjectItem(json, "r") = JNull

RECURSIVE SumDelays(_)
SumDelays(t) ==
    IF t = <<>> THEN 0
    ELSE (IF Head(t).op = "delay" THEN Head(t).n ELSE 0) + SumDelays(Tail(t))

\* C13: move delay.  One move with delay_ms = 20 pauses the delivery context
\* for 20 ms in total; a move with delay 0 or with no delay element causes no
\* pause.
C13_MoveDelay ==
    last = "receive" =>
        /\ inp = Raw(TextSingleDelay) => SumDelays(tr) = 20
        /\ inp = Raw(TextSingle) => SumDelays(tr) = 0
        /\ inp = Raw(TextSequenceSingle) => SumDelays(tr) = 0

\* C14 as stated: {"s":[90,90,270,270,1000,0]} puts both front legs at 90 and
\* both back legs at the reversed form of 270, at speed 1000, with no pause
\* and no response.
C14_Original ==
    (last = "receive" /\ inp = Raw(TextSingle)) =>
        /\ Legs(tr) = << <<DOG_SERVO_FR, 90, 1000>>, <<DOG_SERVO_FL, 90, 1000>>,
                        <<DOG_SERVO_BR, FULL_TURN - 270, 1000>>,
                        <<DOG_SERVO_BL, FULL_TURN - 270, 1000>> >>
        /\ OfOp(tr, "delay") = <<>> /\ OfOp(tr, "resp") = <<>>

\* C14 (amended): {"s":[90,90,270,270,1000,0]} sends exactly four setAngle
\* calls, in the order FR, FL, BR, BL: the right-side legs get the reversed
\* form of their angle (FR 360 - 90 = 270, BR 360 - 270 = 90), the left-side
\* legs their angle unchanged (FL 90, BL 270), all at speed 1000, with no
\* pause and no response.
C14_SingleMove ==
    (last = "receive" /\ inp = Raw(TextSingle)) =>
        tr = <<Cmd(TextSingle), Servo(DOG_SERVO_FR, 270, 1000),
               Servo(DOG_SERVO_FL, 90, 1000), Servo(DOG_SERVO_BR, 90, 1000),
               Servo(DOG_SERVO_BL, 270, 1000)>>

C14_Witness ==
    /\ last = "receive" /\ inp = Raw(TextSingle) /\ pre.running
    /\ Len(OfOp(tr, "servo")) = 4

\* C15: leg reversal.  dog_servo_move sends a right-side leg (FR, BR)
\* 360 - a and a left-side leg (FL, BL) a itself; reversing twice gives a
\* again; dog_servo_move_all sends each of its four legs what dog_servo_move
\* sends that leg.
Physical(id, a) ==
    IF id \in {DOG_SERVO_FR, DOG_SERVO_BR} THEN FULL_TURN - a ELSE a

Fired == last = "process_imu" /\ OfOp(tr, "servo") # <<>>
\* the offset a servo command adds to the stance angle of its leg
StanceOffset(e) ==
    Physical(e.id, e.angle)
    - (IF e.id \in {DOG_SERVO_FR, DOG_SERVO_FL}
       THEN DOG_STANCE_FRONT ELSE DOG_STANCE_BACK)

\* C16: bounded correction.  Whatever samples the ticks were given and
\* however enable, disable and init were interleaved, the accumulated
\* correction is within -REACTION_GYRO_MAX_CORRECTION ..
\* +REACTION_GYRO_MAX_CORRECTION, and so is the offset from stance of every
\* servo command of a stabilization tick.
C16_BoundedCorrection ==
    /\ Abs(accumulated_angle) <= REACTION_GYRO_MAX_CORRECTION
    /\ Fired =>
          \A i \in 1..Len(tr) :
              tr[i].op = "servo" =>
                  /\ Abs(StanceOffset(tr[i])) <= REACTION_GYRO_MAX_CORRECTION
                  /\ StanceOffset(tr[i]) = accumulated_angle

\* a second extreme sample of the same sign, at the lower bound already
C16_Witness ==
    /\ Fired /\ call[1] = -10000
    /\ pre.acc = -REACTION_GYRO_MAX_CORRECTION
    /\ accumulated_angle = -REACTION_GYRO_MAX_CORRECTION
    /\ tr[1] = Servo(DOG_SERVO_FR, FULL_TURN - (DOG_STANCE_FRONT - REACTION_GYRO_MAX_CORRECTION), REACTION_GYRO_SPEED_MIN)

\* C17: disable returns to stance.  Every call
\* reaction_gyro_stabilize_enable(false), whatever the flag was before,
\* commands the four legs to stance (no offset from the front and back stance
\* angles) and leaves stabilization disabled.
C17_DisableReturnsToStance ==
    (last = "stabilize_enable" /\ call = <<FALSE>>) =>
        LET sv == OfOp(tr, "servo")
        IN /\ [i \in 1..Len(sv) |-> sv[i].id]
                 = <<DOG_SERVO_FR, DOG_SERVO_FL, DOG_SERVO_BR, DOG_SERVO_BL>>
           /\ \A i \in 1..Len(sv) : StanceOffset(sv[i]) = 0
           /\ ~gyro_stabilize_enabled

\* C18: enable resets state.  Every call reaction_gyro_stabilize_enable(true),
\* also one made while stabilization is enabled already, leaves the filtered
\* rate, the accumulated correction and the previous correction 0 and the
\* last update time equal to the current time.
C18_EnableResets ==
    (last = "stabilize_enable" /\ call = <<TRUE>>) =>
        /\ gyro_filtered_y = 0
        /\ accumulated_angle = 0
        /\ prev_accumulated_angle = 0
        /\ last_stabilize_time = tick_count

\* the tick count of the last fired update before the last handler, -1 if none
LastFiredBefore == IF Fired THEN fired[1] ELSE fired[2]
\* the last handler was a tick less than the interval after a fired update
EarlyTick ==
    /\ last = "process_imu"
    /\ LastFiredBefore >= 0
    /\ pdTICKS_TO_MS(tick_count - LastFiredBefore) < REACTION_GYRO_UPDATE_INTERVAL_MS
StabilizationUnchanged ==
    /\ gyro_filtered_y = pre.filt
    /\ accumulated_angle = pre.acc
    /\ prev_accumulated_angle = pre.prev
    /\ last_stabilize_time = pre.lst

\* C19: rate limiting.  A tick while stabilization is disabled, or less than
\* REACTION_GYRO_UPDATE_INTERVAL_MS after the last fired update, leaves the
\* filtered rate, both corrections and the last update time as they were and
\* commands no servo; a tick that fires commands FR, FL, BR, BL once each and
\* sets the last update time to now; two fired updates are at least the
\* interval apart.
C19_RateLimiting ==
    last = "process_imu" =>
        /\ (~pre.en \/ EarlyTick) =>
              StabilizationUnchanged /\ OfOp(tr, "servo") = <<>>
        /\ Fired =>
              /\ [i \in 1..Len(OfOp(tr, "servo")) |-> OfOp(tr, "servo")[i].id]
                    = <<DOG_SERVO_FR, DOG_SERVO_FL, DOG_SERVO_BR, DOG_SERVO_BL>>
              /\ last_stabilize_time = tick_count
              /\ fired[1] >= 0 =>
                    pdTICKS_TO_MS(fired[2] - fired[1])
                        >= REACTION_GYRO_UPDATE_INTERVAL_MS
        /\ ~Fired => StabilizationUnchanged

\* after two updates fired one interval apart, an extreme sample that comes
\* early is ignored
C19_Witness ==
    /\ EarlyTick /\ pre.en /\ ~Fired /\ call[1] = 10000
    /\ fired[1] >= 0
    /\ pdTICKS_TO_MS(fired[2] - fired[1]) = REACTION_GYRO_UPDATE_INTERVAL_MS
    /\ accumulated_angle # 0

\* the speed of a fired tick is within the range, one speed for the four
\* legs, the minimum for the change 0 and the maximum from the threshold on
SpeedFor(change) ==
    \A i \in 1..Len(OfOp(tr, "servo")) :
        LET speed == OfOp(tr, "servo")[i].speed
        IN /\ speed >= REACTION_GYRO_SPEED_MIN
           /\ speed <= REACTION_GYRO_SPEED_MAX
           /\ change = 0 => speed = REACTION_GYRO_SPEED_MIN
           /\ change >= REACTION_GYRO_SPEED_THRESHOLD => speed = REACTION_GYRO_SPEED_MAX
\* the speed never falls as the change grows
SpeedMonotone ==
    \A change \in 0..(2 * REACTION_GYRO_MAX_CORRECTION) :
        dynamic_speed(change) <= dynamic_speed(change + 1)

\* C20 as stated: the change is that of the correction since the previous
\* fired tick.  Violated: enable(true) after a disable zeroes the stored
\* previous correction, so the speed follows the change from 0.
C20_Original ==
    /\ (Fired /\ fired[1] >= 0) => SpeedFor(Abs(fired[4] - fired[3]))
    /\ SpeedMonotone

\* C20: bounded dynamic speed.  The speed of every fired tick is within
\* REACTION_GYRO_SPEED_MIN .. REACTION_GYRO_SPEED_MAX; it is the minimum when
\* the correction equals the stored previous correction, the maximum when
\* they differ by REACTION_GYRO_SPEED_THRESHOLD or more, and it never falls
\* as the difference grows.
C20_BoundedSpeed ==
    /\ Fired =>
          /\ SpeedFor(Abs(accumulated_angle - pre.prev))
          /\ tr[1].speed = dynamic_speed(Abs(accumulated_angle - pre.prev))
    /\ SpeedMonotone

\* a change of 4 degrees, within the threshold, is given a speed in between
C20_Witness ==
    /\ Fired /\ fired[1] >= 0
    /\ Abs(accumulated_angle - pre.prev) = 4
    /\ tr[1].speed > REACTION_GYRO_SPEED_MIN
    /\ tr[1].speed < REACTION_GYRO_SPEED_MAX

\* a walk playback the last handler started
Walks == OfOp(tr, "walk")
\* the last handler was a sample that the detector looked at
Sampled == last = "process_imu" /\ initialized

\* C21: first sample seeds only.  The first sample after reaction_init,
\* whatever its accel_x, starts no playback: it becomes the previous reading
\* and the trigger time stays as it was.
C21_FirstSampleSeeds ==
    (Sampled /\ ~pre.has) =>
        /\ Walks = <<>>
        /\ prev_accel_x = call[2]
        /\ has_prev_reading
        /\ last_reaction_time = pre.lrt

\* a first sample of 60, which is 60 above the zeroed previous reading, a
\* cooldown after start-up
C21_Witness ==
    /\ Sampled /\ ~pre.has /\ call[2] = 60
    /\ pdTICKS_TO_MS(tick_count - pre.lrt) >= REACTION_COOLDOWN_MS
    /\ prev_accel_x = 60 /\ Walks = <<>>

\* the last handler was a sample that recorded a trigger
Triggered == Sampled /\ last_reaction_time # pre.lrt
\* the number of triggers before the last handler
TriggersBefore == IF Triggered THEN triggers - 1 ELSE triggers
\* the last sample passes the thresholds of a forward or a backward push
Qualifies ==
    /\ Sampled /\ pre.has
    /\ \/ is_front_push(call[2] - pre.pax, call[2])
       \/ is_back_push(call[2] - pre.pax, call[2])
\* milliseconds from the trigger time the last handler found to now
SinceTrigger == pdTICKS_TO_MS(tick_count - pre.lrt)

\* C22: cooldown debounce.  A trigger is at least REACTION_COOLDOWN_MS after
\* the trigger before it, and a qualifying sample that comes less than
\* REACTION_COOLDOWN_MS after a trigger starts no playback and leaves the
\* trigger time as the first set it.
C22_CooldownDebounce ==
    /\ (Triggered /\ TriggersBefore > 0) => SinceTrigger >= REACTION_COOLDOWN_MS
    /\ (Qualifies /\ TriggersBefore > 0 /\ SinceTrigger < REACTION_COOLDOWN_MS) =>
          /\ Walks = <<>>
          /\ last_reaction_time = pre.lrt
    /\ Walks # <<>> => Triggered

\* a forward push half a cooldown after a trigger, ignored
C22_Witness ==
    /\ Qualifies /\ TriggersBefore = 1 /\ ~Triggered
    /\ is_front_push(call[2] - pre.pax, call[2])
    /\ SinceTrigger = REACTION_COOLDOWN_MS \div 2
    /\ Walks = <<>>

\* C23: inclusive thresholds.  With a previous reading and the cooldown
\* elapsed, a sample starts the forward playback exactly when its delta is
\* REACTION_DELTA_THRESHOLD or more and its accel_x REACTION_MIN_ACCEL or
\* more: at delta = threshold and accel_x = minimum it does, below either it
\* does not.
C23_InclusiveThresholds ==
    (Sampled /\ pre.has /\ SinceTrigger >= REACTION_COOLDOWN_MS) =>
        LET delta == call[2] - pre.pax
        IN /\ (delta = REACTION_DELTA_THRESHOLD /\ call[2] = REACTION_MIN_ACCEL) =>
                 Walks = <<Walk(3)>> /\ Triggered
           /\ (delta < REACTION_DELTA_THRESHOLD \/ call[2] < REACTION_MIN_ACCEL) =>
                 Walks = <<>>
           /\ (delta >= REACTION_DELTA_THRESHOLD /\ call[2] >= REACTION_MIN_ACCEL) =>
                 Walks = <<Walk(3)>>

\* -47 then 3: the delta is 50 and accel_x is 3, and the playback starts
C23_Witness ==
    /\ Sampled /\ pre.has /\ SinceTrigger >= REACTION_COOLDOWN_MS
    /\ pre.pax = -47 /\ call[2] = REACTION_MIN_ACCEL
    /\ Walks = <<Walk(3)>> /\ last_reaction_time = tick_count

\* C24: gait / stabilization mutual exclusion.  The gait engine is never
\* running while stabilization is enabled: enabling stabilization leaves no
\* gait running, and starting a gait leaves stabilization disabled.
C24_MutualExclusion ==
    /\ ~(gait_running /\ gyro_stabilize_enabled)
    /\ (last = "stabilize_enable" /\ call = <<TRUE>>) => ~gait_running
    /\ last \in {"gait_start", "gait_set_direction"} => ~gyro_stabilize_enabled

\* the last four legs a record of effects commands, as <<id, angle>>
LastLegs(t) ==
    LET sv == OfOp(t, "servo")
        n == Len(sv)
    IN IF n < DOG_SERVO_COUNT THEN <<>>
       ELSE [j \in 1..DOG_SERVO_COUNT |->
                <<sv[n - DOG_SERVO_COUNT + j].id, sv[n - DOG_SERVO_COUNT + j].angle>>]
Cancels ==
    \/ last \in {"connect", "disconnect"}
    \/ last = "receive" /\ CmdAt(TextStance) > 0

\* C25: cancellation.  Each connect event, each disconnect event and each
\* stance command leaves the gait not running and commands the four legs to
\* stance.
C25_Cancellation ==
    Cancels => ~gait_running /\ LastLegs(tr) = StanceLegs

RippleOrder(direction) ==
    CASE direction = "forward" ->
            <<DOG_SERVO_BL, DOG_SERVO_FR, DOG_SERVO_BR, DOG_SERVO_FL>>
      [] direction = "turn_right" ->
            <<DOG_SERVO_BL, DOG_SERVO_BR, DOG_SERVO_FL, DOG_SERVO_FR>>
      [] direction = "turn_left" ->
            <<DOG_SERVO_BR, DOG_SERVO_BL, DOG_SERVO_FR, DOG_SERVO_FL>>
\* the forward extreme of a leg, as the servo is commanded
ForwardExtreme(id) ==
    Physical(id, (IF id \in {DOG_SERVO_FR, DOG_SERVO_FL}
                  THEN DOG_STANCE_FRONT ELSE DOG_STANCE_BACK)
                 + DOG_SWING_AMPLITUDE)

C28_GaitStateInvariant ==
    gait_running => gait_direction # "stop"

\* the legs a record of effects pings, and the legs it sets the torque of
Pinged(t) == [i \in 1..Len(OfOp(t, "ping")) |-> OfOp(t, "ping")[i].id]
Torqued(t) ==
    [i \in 1..Len(OfOp(t, "torque")) |->
        <<OfOp(t, "torque")[i].id, OfOp(t, "torque")[i].n>>]
\* what is left of a record of effects without its pauses
Calls(t) == SelectSeq(t, LAMBDA e : e.op # "delay")
AllLegs == [id \in DOG_SERVO_FR..DOG_SERVO_COUNT |-> id]

\* C29: non-fatal hardware bring-up.  When the servo bus does not come up,
\* dog_init returns false and has pinged nothing, set no torque and commanded
\* no angle.  When it comes up, dog_init pings the four legs in turn whatever
\* the answers, then enables the torque of the four legs, then commands the
\* four legs to stance, and returns true exactly when all four answered.
C29_NonFatalBringUp ==
    last = "dog_init" =>
        LET bus_ok == call[1]
            responds == call[2]
        IN /\ ~bus_ok => tr = <<Return(FALSE)>>
           /\ bus_ok =>
                Calls(tr) =
                    [id \in DOG_SERVO_FR..DOG_SERVO_COUNT |-> Ping(id)]
                    \o [id \in DOG_SERVO_FR..DOG_SERVO_COUNT |-> Torque(id, TRUE)]
                    \o [id \in DOG_SERVO_FR..DOG_SERVO_COUNT |->
                           Servo(id, StanceLegs[id][2], DOG_DEFAULT_SPEED)]
                    \o <<Return(responds = DOG_SERVO_FR..DOG_SERVO_COUNT)>>
\* the first leg silent, the bus up: the other three are still pinged, and
\* torque and stance follow
C29_Witness ==
    /\ last = "dog_init"
    /\ call[1]
    /\ call[2] = {DOG_SERVO_FL, DOG_SERVO_BR, DOG_SERVO_BL}
    /\ Pinged(tr) = AllLegs
    /\ Len(Torqued(tr)) = DOG_SERVO_COUNT
    /\ LastLegs(tr) = StanceLegs
    /\ tr[Len(tr)] = Return(FALSE)

\* C30: overflow boundary.  An in-sequence fragment gets the overflow error
\* exactly when its payload, the bytes accumulated before it and the
\* terminator together are more than CHUNK_BUFFER_SIZE; a payload that brings
\* the accumulated length to CHUNK_BUFFER_SIZE - 1 is appended and acked.
C30_OverflowBoundary ==
    (GotChunk /\ InSequence) =>
        /\ (\E i \in 1..Len(tr) : tr[i] = Resp("err_overflow", 0))
              <=> (SeqLen + strlen(inp.d) + 1 > CHUNK_BUFFER_SIZE)
        /\ (SeqLen + strlen(inp.d) = CHUNK_BUFFER_SIZE - 1) => Acks(tr) # <<>>

\* the calls of the push detector in the record of effects
Detections == SelectSeq(tr, LAMBDA e : e.op \in {"trigger", "walk"})
\* the last sample passes the thresholds of a backward push
BackwardSample ==
    /\ Sampled /\ pre.has
    /\ call[2] - pre.pax <= -REACTION_DELTA_THRESHOLD
    /\ call[2] <= -REACTION_MIN_ACCEL
ForwardSample ==
    /\ Sampled /\ pre.has
    /\ call[2] - pre.pax >= REACTION_DELTA_THRESHOLD
    /\ call[2] >= REACTION_MIN_ACCEL

\* C31: the backward push is a no-op that debounces.  A backward sample with
\* the cooldown elapsed records the trigger time and starts no playback; a
\* forward sample that comes less than REACTION_COOLDOWN_MS after a backward
\* trigger starts none either; and a sample that starts the playback starts
\* it once, after recording the trigger time.
C31_BackwardDebounces ==
    /\ (BackwardSample /\ SinceTrigger >= REACTION_COOLDOWN_MS) =>
          /\ Detections = <<Trigger(tick_count)>>
          /\ last_reaction_time = tick_count
    /\ (ForwardSample /\ trigger_kind[1] = "back"
        /\ SinceTrigger < REACTION_COOLDOWN_MS) =>
          /\ Detections = <<>>
          /\ last_reaction_time = pre.lrt
    /\ Walks # <<>> => Detections = <<Trigger(tick_count), Walk(3)>>
\* a forward push half a cooldown after a backward trigger, ignored
C31_Witness ==
    /\ ForwardSample
    /\ trigger_kind = <<"back", "back">>
    /\ SinceTrigger = REACTION_COOLDOWN_MS \div 2
    /\ Detections = <<>>

\* C32: the cooldown applies only after a trigger.  While no trigger has
\* occurred since start-up, a sample after the first that passes the
\* thresholds of a push records a trigger, and starts the playback when the
\* push is a forward one, however early it comes.
C32_CooldownOnlyAfterTrigger ==
    /\ (ForwardSample /\ TriggersBefore = 0) =>
          Triggered /\ Walks = <<Walk(3)>>
    /\ (BackwardSample /\ TriggersBefore = 0) => Triggered

\* the servo commands of Move1 and of Move3, as <<id, angle, speed>>
Move1Legs ==
    <<<<DOG_SERVO_FR, Physical(DOG_SERVO_FR, 90), 1000>>,
      <<DOG_SERVO_FL, 90, 1000>>,
      <<DOG_SERVO_BR, Physical(DOG_SERVO_BR, 270), 1000>>,
      <<DOG_SERVO_BL, 270, 1000>>>>
Move3Legs ==
    <<<<DOG_SERVO_FR, Physical(DOG_SERVO_FR, 120), 1000>>,
      <<DOG_SERVO_FL, 60, 1000>>,
      <<DOG_SERVO_BR, Physical(DOG_SERVO_BR, 90), 1000>>,
      <<DOG_SERVO_BL, 90, 1000>>>>
GotRaw == last = "receive" /\ inp.kind = "raw"

\* C33: wrong arity or element types are dropped.  A move array of four
\* elements, or with a string among its elements, as the value of "s" has no
\* effect at all; as an element of "m" it has none either, and the moves
\* before and after it are applied in order.
C33_MalformedMovesDropped ==
    GotRaw =>
        /\ inp.text \in {TextSingleOf(MoveShort), TextSingleOf(MoveTyped)} =>
              tr = <<Cmd(inp.text)>>
        /\ inp.text \in {TextSequenceOf(MoveShort), TextSequenceOf(MoveTyped)} =>
              /\ Legs(tr) = Move1Legs \o Move3Legs
              /\ OfOp(tr, "delay") = <<>>
              /\ OfOp(tr, "resp") = <<Resp("ok", 1)>>

\* C33 holds of the arrays that are too short.
C33_ShortMovesDropped ==
    GotRaw =>
        /\ inp.text = TextSingleOf(MoveShort) => tr = <<Cmd(inp.text)>>
        /\ inp.text = TextSequenceOf(MoveShort) =>
              /\ Legs(tr) = Move1Legs \o Move3Legs
              /\ OfOp(tr, "delay") = <<>>
              /\ OfOp(tr, "resp") = <<Resp("ok", 1)>>

\* the largest speed of a move command
MOVE_SPEED_MAX == 4095

\* C34: speed range.  Every servo command that a move command causes carries
\* a speed within 0 .. MOVE_SPEED_MAX, whatever integer the peer sent as the
\* speed, negative ones and ones above 65535 included.
C34_SpeedRange ==
    (GotRaw /\ inp.text \in MoveTexts) =>
        \A i \in 1..Len(Legs(tr)) : Legs(tr)[i][3] \in 0..MOVE_SPEED_MAX

\* what the code keeps: the speed is the integer sent, modulo 2^16
C34_SpeedIsUint16 ==
    (GotRaw /\ inp.text \in MoveTexts) =>
        \A i \in 1..Len(Legs(tr)) : Legs(tr)[i][3] \in 0..(UINT16_MOD - 1)

\* C35: assembly progress invariant.  After every inbound buffer the
\* assembler is idle, or in progress with 1 <= lastReceived < expectedTotal;
\* and a fragment that is acked has an index not above its declared total.
C35_AssemblyProgress ==
    /\ \/ s_chunk_len = 0 /\ s_chunk_expected = 0 /\ s_chunk_received = 0
       \/ 1 <= s_chunk_received /\ s_chunk_received < s_chunk_expected
    /\ (GotChunk /\ Acks(tr) # <<>>) => inp.k <= inp.t

\* C35 holds while no fragment 1 declares the total 0.
C35_PositiveTotals ==
    \/ s_chunk_len = 0 /\ s_chunk_expected = 0 /\ s_chunk_received = 0
    \/ 1 <= s_chunk_received /\ s_chunk_received < s_chunk_expected
    \/ s_chunk_expected = 0 /\ s_chunk_received >= 1

\* C36: no aliasing of out-of-range indices.  A fragment whose index or
\* total is beyond the range of uint8_t is validated, acked and counted with
\* the integers the peer sent: it is acked only when in sequence by those
\* integers, the ack echoes the index sent, the message is forwarded only
\* when the index sent equals the total sent, and an accepted fragment that
\* is not the last leaves the total and the index sent on record.
C36_NoAliasing ==
    (GotChunk /\ (inp.k >= UINT8_MOD \/ inp.t >= UINT8_MOD)) =>
        /\ Acks(tr) # <<>> => (InSequence /\ Acks(tr) = <<Resp("ack", inp.k)>>)
        /\ OfOp(tr, "cmd") # <<>> => inp.k = inp.t
        /\ (Acks(tr) # <<>> /\ inp.k < inp.t) =>
              (s_chunk_expected = inp.t /\ s_chunk_received = inp.k)

\* the last fragment follows the last accepted one and leaves a byte to spare
NextFragment ==
    /\ GotChunk /\ pre.rcv >= 1
    /\ inp.k = pre.rcv + 1 /\ inp.t = pre.exp
    /\ pre.len + strlen(inp.d) < CHUNK_BUFFER_SIZE - 1

\* C37: interleaved traffic leaves assembly untouched.  A buffer that is no
\* fragment, a command or an unparsable text, leaves the accumulated bytes,
\* the expected total and the last received index as they were; the next
\* in-sequence fragment after it is acked; and the payload forwarded at the
\* end is the concatenation of the payloads of the fragments alone.
C37_InterleavedTraffic ==
    /\ GotRaw => AssemblyUnchanged
    /\ (NextFragment /\ assembled[2]) =>
          /\ Acks(tr) = <<Resp("ack", inp.k)>>
          /\ inp.k < inp.t => s_chunk_buffer = assembled[1]
          /\ inp.k = inp.t => OfOp(tr, "cmd") = <<Cmd(assembled[1])>>
\* a blank and a ping as two fragments with a buffer that is no fragment
\* between them, forwarded as one ping
C37_Witness ==
    /\ NextFragment /\ assembled[2]
    /\ inp.k = 2 /\ inp.t = 2
    /\ pre.buf = <<WS>>
    /\ assembled[1] = <<WS>> \o TextPing
    /\ AfterCmd(<<WS>> \o TextPing) = <<Resp("p", 1)>>

\* C38: no assembly across connections.  A disconnect leaves the assembler
\* idle, and a fragment with an index above 1 that is the first buffer of a
\* new connection is refused with chunk_seq.
C38_NoAssemblyAcrossConnections ==
    [][/\ last' = "disconnect" => Idle'
       /\ (/\ last = "connect" /\ last' = "receive"
           /\ inp'.kind = "chunk" /\ inp'.k \in 2..(UINT8_MOD - 1)) =>
              (tr' = <<Resp("err_chunk_seq", 0)>> /\ Idle')]_vars

\* the angle and speed each leg was last commanded to in a record of the
\* servo bus, <<>> for a leg it has no command for
LegTargets(t) ==
    [id \in DOG_SERVO_FR..DOG_SERVO_COUNT |->
        LET own == SelectSeq(t, LAMBDA e : e.op = "servo" /\ e.id = id)
        IN IF own = <<>> THEN <<>>
           ELSE <<own[Len(own)].angle, own[Len(own)].speed>>]

\* reaction_gyro_stabilize_enable(false) has returned and no enable call has
\* begun since
DisableReturned == ~gyro_stabilize_enabled /\ ~TransportCalling

\* C39: when reaction_gyro_stabilize_enable(false) runs in one task while a
\* stabilization tick runs in the other, no servo command of the tick comes
\* after the disable call has returned, and at the return of a disable call
\* that found stabilization on the four legs hold the stance targets.
C39_DisableIsFinal ==
    [][/\ DisableReturned =>
              last' \notin {"control_statement", "control_return"}
       /\ (gyro_stabilize_enabled /\ ~gyro_stabilize_enabled') =>
              LegTargets(tr') = LegTargets(dog_goto_stance(Machine).tr)]_vars

\* C40: when a move or stance command in the transport task and a
\* stabilization update in the control-loop task both call
\* dog_servo_move_all, then once both calls have finished the four legs hold
\* the targets of one and the same of the two moves.
C40_AtomicTarget ==
    (/\ RaceQuiet
     /\ last \in {"transport_return", "control_return"}
     /\ inp.kind = "raw"
     /\ LastCalls[1] # <<>> /\ LastCalls[2] # <<>>) =>
        LegTargets(tr) \in {LegTargets(LastCalls[1]), LegTargets(LastCalls[2])}

====
